---------------------------- MODULE Spec2Model ----------------------------
(***************************************************************************)
(* Model of the task-table plugin core: the line classifier, the hierarchy *)
(* scanner with its mtime-keyed parse cache, the grouping pass of          *)
(* mountTable, the relocation/deletion engine and the autoscan listener.   *)
(*                                                                         *)
(* A line is a sequence of one-character strings; a document's content is  *)
(* the sequence of its characters, "\n" included, exactly as vault.read    *)
(* returns it and vault.modify takes it. Line indices are 0-based as in    *)
(* the source; TLA+ sequences are 1-based, hence the +1 at every access.   *)
(***************************************************************************)
EXTENDS Integers, Sequences, FiniteSets, TLC

-----------------------------------------------------------------------------
(* Generic helpers on sequences (JavaScript array/string primitives).      *)

Max2(a, b) == IF a >= b THEN a ELSE b
Min2(a, b) == IF a <= b THEN a ELSE b

\* Array.prototype.slice(from, to) with 0-based from (inclusive), to (exclusive)
slice(s, from, to) == SubSeq(s, Max2(from, 0) + 1, Min2(to, Len(s)))

\* Array.prototype.splice(at, n) result array: n elements removed at 0-based at
spliceOut(s, at, n) ==
    IF at >= Len(s) THEN s
    ELSE SubSeq(s, 1, at) \o SubSeq(s, Min2(at + n, Len(s)) + 1, Len(s))

\* Array.prototype.splice(at, 0, ...items) result array (0 <= at <= length)
spliceIn(s, at, items) == SubSeq(s, 1, at) \o items \o SubSeq(s, at + 1, Len(s))

\* String.prototype.split("\n")
RECURSIVE split(_)
split(content) ==
    IF \A i \in 1..Len(content) : content[i] # "\n" THEN <<content>>
    ELSE LET i == CHOOSE j \in 1..Len(content) :
                    content[j] = "\n" /\ \A k \in 1..(j - 1) : content[k] # "\n"
         IN <<SubSeq(content, 1, i - 1)>> \o split(SubSeq(content, i + 1, Len(content)))

\* Array.prototype.join("\n")
RECURSIVE join(_)
join(lines) ==
    IF lines = <<>> THEN <<>>
    ELSE IF Len(lines) = 1 THEN lines[1]
    ELSE lines[1] \o <<"\n">> \o join(Tail(lines))

\* String.prototype.endsWith("\n")
endsWithNewline(content) == Len(content) > 0 /\ content[Len(content)] = "\n"

\* "\t".repeat(n)
RECURSIVE tabRepeat(_)
tabRepeat(n) == IF n <= 0 THEN <<>> ELSE <<"\t">> \o tabRepeat(n - 1)

-----------------------------------------------------------------------------
(* Line classifier (utils/text).                                           *)

\* the characters the regular-expression class \s matches in the model's alphabet
WS == {" ", "\t", "\r"}

\* the characters the regular-expression class . does not match (line terminators)
LineTerminators == {"\n", "\r"}

\* length of the greedy match of ^\s* on ln
leadLen(ln) ==
    CHOOSE k \in 0..Len(ln) :
        /\ \A i \in 1..k : ln[i] \in WS
        /\ (k = Len(ln) \/ ln[k + 1] \notin WS)

\* ln matches  [-*]\s\[[ xX]\]\s  at 0-based offset k
prefixAt(ln, k) ==
    /\ Len(ln) >= k + 6
    /\ ln[k + 1] \in {"-", "*"}
    /\ ln[k + 2] \in WS
    /\ ln[k + 3] = "["
    /\ ln[k + 4] \in {" ", "x", "X"}
    /\ ln[k + 5] = "]"
    /\ ln[k + 6] \in WS

\* TASK_RX.test(ln):  /^\s*[-*]\s\[[ xX]\]\s.+/
TASK_RX(ln) ==
    LET k == leadLen(ln)
    IN prefixAt(ln, k) /\ Len(ln) >= k + 7 /\ ln[k + 7] \notin LineTerminators

\* ln matches  ^\s*[-*]\s\[( |x|X)\]\s(.+)$ : the payload runs to the end of
\* the line, no line terminator in it
matchesToEnd(ln) ==
    LET k == leadLen(ln)
    IN /\ prefixAt(ln, k) /\ Len(ln) >= k + 7
       /\ \A i \in (k + 7)..Len(ln) : ln[i] \notin LineTerminators

\* number of elements of s that are (are not) tabs
RECURSIVE countTabs(_)
countTabs(s) == IF s = <<>> THEN 0
                ELSE (IF Head(s) = "\t" THEN 1 ELSE 0) + countTabs(Tail(s))

getIndentDepth(ln) ==
    LET k == leadLen(ln) IN
    IF ~prefixAt(ln, k) THEN 1
    ELSE LET lead   == SubSeq(ln, 1, k)
             tabs   == countTabs(lead)
             spaces == Len(lead) - tabs
         IN 1 + tabs + (spaces \div 2)

\* String.prototype.trim()
RECURSIVE trimEnd(_)
trimEnd(s) == IF s # <<>> /\ s[Len(s)] \in WS THEN trimEnd(SubSeq(s, 1, Len(s) - 1)) ELSE s
trim(s) == LET t == trimEnd(s) IN SubSeq(t, leadLen(t) + 1, Len(t))

lineWithDepth(originalLine, newDepth) ==
    LET indent == tabRepeat(Max2(0, newDepth - 1))
        k      == leadLen(originalLine)
    IN IF matchesToEnd(originalLine)
       THEN indent \o SubSeq(originalLine, k + 1, Len(originalLine))
       ELSE indent \o <<"-", " ", "[", " ", "]", " ">> \o trim(originalLine)

-----------------------------------------------------------------------------
(* Hierarchy scanner and parse cache (data/scan).                          *)

\* a compiled rule's RegExp is modelled by the set of paths it matches
getMatchedRules(path, compiled) == SelectSeq(compiled, LAMBDA c : path \in c.re)

\* an absent parentId (undefined)
NoId == <<>>

\* the first loop with a fault: the first line that is no task line ends the scan
parseEntriesAborting(path, lines) ==
    LET idx  == [i \in 1..Len(lines) |-> i - 1]
        hits == SelectSeq(idx, LAMBDA i : \A j \in 1..(i + 1) : TASK_RX(lines[j]))
    IN [k \in 1..Len(hits) |->
          [path |-> path, lineIndex |-> hits[k], originalLine |-> lines[hits[k] + 1],
           depth |-> getIndentDepth(lines[hits[k] + 1]), id |-> <<path, hits[k]>>,
           parentId |-> NoId]]

\* first loop of getCachedFileParse: one entry per line matching TASK_RX
parseEntries(path, lines) ==
    LET idx  == [i \in 1..Len(lines) |-> i - 1]
        hits == SelectSeq(idx, LAMBDA i : TASK_RX(lines[i + 1]))
    IN [k \in 1..Len(hits) |->
          [path |-> path, lineIndex |-> hits[k], originalLine |-> lines[hits[k] + 1],
           depth |-> getIndentDepth(lines[hits[k] + 1]), id |-> <<path, hits[k]>>,
           parentId |-> NoId]]

\* a stack that pops only the strictly deeper entries, keeping a sibling on top
RECURSIVE popStackDeeper(_, _)
popStackDeeper(stack, depth) ==
    IF stack # <<>> /\ stack[Len(stack)].depth > depth
    THEN popStackDeeper(SubSeq(stack, 1, Len(stack) - 1), depth)
    ELSE stack

\* while (stack.length && stack[top].depth >= depth) stack.pop()
RECURSIVE popStack(_, _)
popStack(stack, depth) ==
    IF stack # <<>> /\ stack[Len(stack)].depth >= depth
    THEN popStack(SubSeq(stack, 1, Len(stack) - 1), depth)
    ELSE stack

\* second loop: parent links through the depth stack, from entry k on
RECURSIVE linkParents(_, _, _)
linkParents(entries, k, stack) ==
    IF k > Len(entries) THEN entries
    ELSE LET st == popStack(stack, entries[k].depth)
             e  == [entries[k] EXCEPT !.parentId =
                        IF st # <<>> THEN st[Len(st)].id ELSE NoId]
         IN linkParents([entries EXCEPT ![k] = e], k + 1, Append(st, e))

\* a children index that puts each child in front of its siblings
childIndexNewestFirst(entries) ==
    LET parents == {entries[k].parentId : k \in 1..Len(entries)} \ {NoId}
        ids     == [k \in 1..Len(entries) |-> entries[Len(entries) + 1 - k].id]
    IN [pid \in parents |->
          SelectSeq(ids, LAMBDA id :
              \E k \in 1..Len(entries) : entries[k].id = id /\ entries[k].parentId = pid)]

\* third loop: children index, child ids in entry order under each parent id
childIndex(entries) ==
    LET parents == {entries[k].parentId : k \in 1..Len(entries)} \ {NoId}
        ids     == [k \in 1..Len(entries) |-> entries[k].id]
    IN [pid \in parents |->
          SelectSeq(ids, LAMBDA id :
              \E k \in 1..Len(entries) : entries[k].id = id /\ entries[k].parentId = pid)]

\* the re-scan of a miss: entries with parents, and the children index
parseFile(path, content) ==
    LET parsed(entries) == [entries |-> entries, childrenById |-> childIndex(entries)]
    IN parsed(linkParents(parseEntries(path, split(content)), 1, <<>>))

\* a cache that answers from any entry of the path, whatever its timestamp
cacheHitAnyTime(c, path, mtime) == path \in DOMAIN c

\* cached && cached.mtime === mtime
cacheHit(c, path, mtime) == path \in DOMAIN c /\ c[path].mtime = mtime

\* getCachedFileParse. The entries array and children map a miss allocates carry
\* the identity obj (the caller's next free object number); a hit returns the
\* cached objects. Result: the parse, the cache afterwards, whether content was read.
getCachedFileParse(c, fs, path, obj) ==
    IF cacheHit(c, path, fs[path].mtime)
    THEN [parse |-> [obj |-> c[path].obj, entries |-> c[path].entries,
                     childrenById |-> c[path].childrenById],
          cache |-> c, read |-> FALSE]
    ELSE LET miss(p) ==
                 [parse |-> [obj |-> obj, entries |-> p.entries, childrenById |-> p.childrenById],
                  cache |-> [q \in DOMAIN c \cup {path} |->
                               IF q = path
                               THEN [mtime |-> fs[path].mtime, obj |-> obj, entries |-> p.entries,
                                     childrenById |-> p.childrenById]
                               ELSE c[q]],
                  read |-> TRUE]
         IN miss(parseFile(path, fs[path].content))

\* invalidateCachedFile
invalidateCachedFile(c, path) == [q \in DOMAIN c \ {path} |-> c[q]]

-----------------------------------------------------------------------------
(* Rule compiler and grouping engine (data/scan).                          *)

\* The indexed markdown documents, in the order getIndexedFiles lists them.
Paths == {"A.md", "B.md"}
IndexedFiles == <<"A.md", "B.md">>

\* extractFileName on the model's paths: last path segment without ".md"
extractFileName(path) == IF path = "A.md" THEN <<"A">> ELSE <<"B">>

\* a.localeCompare(b) <= 0 on the model's names (letters in alphabetical order)
charRank(ch) == CASE ch = "A" -> 1 [] ch = "B" -> 2 [] ch = "G" -> 3 [] ch = "H" -> 4
                  [] OTHER -> 0
RECURSIVE localeLeq(_, _)
localeLeq(a, b) ==
    IF a = <<>> THEN TRUE
    ELSE IF b = <<>> THEN FALSE
    ELSE IF charRank(Head(a)) # charRank(Head(b)) THEN charRank(Head(a)) < charRank(Head(b))
    ELSE localeLeq(Tail(a), Tail(b))

\* compileRules with a fault: the first pattern that does not compile ends the list
RECURSIVE compileRulesUntilInvalid(_)
compileRulesUntilInvalid(rules) ==
    IF rules = <<>> \/ ~Head(rules).re.ok THEN <<>>
    ELSE <<[name |-> Head(rules).name, re |-> Head(rules).re.paths]>>
         \o compileRulesUntilInvalid(Tail(rules))

\* compileRules: new RegExp(r.re) throws on an invalid pattern; the rule is dropped.
\* A raw rule's pattern is modelled by whether it compiles and the paths it matches.
compileRules(rules) ==
    LET ok == SelectSeq(rules, LAMBDA r : r.re.ok)
    IN [k \in 1..Len(ok) |-> [name |-> ok[k].name, re |-> ok[k].re.paths]]

\* compiled.some(c => (c.name ?? "").trim().length > 0)
hasGroupsOf(compiled) == \E k \in 1..Len(compiled) : trim(compiled[k].name) # <<>>

\* the distinct names without filter(Boolean): the empty name is a group name too
RECURSIVE distinctNamesWithEmpty(_, _)
distinctNamesWithEmpty(matched, acc) ==
    IF matched = <<>> THEN acc
    ELSE LET n == trim(Head(matched).name)
         IN distinctNamesWithEmpty(Tail(matched),
               IF \E k \in 1..Len(acc) : acc[k] = n THEN acc ELSE Append(acc, n))

\* Array.from(new Set(matched.map(m => m.name.trim()).filter(Boolean))): first occurrences
RECURSIVE distinctNames(_, _)
distinctNames(matched, acc) ==
    IF matched = <<>> THEN acc
    ELSE LET n == trim(Head(matched).name)
         IN distinctNames(Tail(matched),
               IF n = <<>> \/ (\E k \in 1..Len(acc) : acc[k] = n) THEN acc ELSE Append(acc, n))

\* filesMap.has(path) / filesMap.set(path, bucket) on an insertion-ordered Map
putBucket(buckets, b) ==
    IF \E k \in 1..Len(buckets) : buckets[k].filePath = b.filePath THEN buckets
    ELSE Append(buckets, b)

\* the loop over groupNames in addFileToGroups
RECURSIVE putInGroups(_, _, _)
putInGroups(groupsMap, names, b) ==
    IF names = <<>> THEN groupsMap
    ELSE LET g  == Head(names)
             gm == IF \E k \in 1..Len(groupsMap) : groupsMap[k].name = g THEN groupsMap
                   ELSE Append(groupsMap, [name |-> g, files |-> <<>>])
         IN putInGroups(
               [k \in 1..Len(gm) |->
                  IF gm[k].name = g THEN [gm[k] EXCEPT !.files = putBucket(@, b)] ELSE gm[k]],
               Tail(names), b)

\* addFileToGroups: acc carries flatFiles and groupsMap
addFileToGroups(acc, path, fileName, rawEntries, matched, hasGroups) ==
    LET b == [filePath |-> path, fileName |-> fileName, items |-> rawEntries] IN
    IF rawEntries.entries = <<>> THEN acc
    ELSE IF ~hasGroups THEN [acc EXCEPT !.flatFiles = putBucket(@, b)]
    ELSE [acc EXCEPT !.groupsMap = putInGroups(@, distinctNames(matched, <<>>), b)]

\* Array.prototype.sort with the comparator key(a).localeCompare(key(b)): stable
RECURSIVE insertSorted(_, _)
insertSorted(sorted, x) ==
    IF sorted = <<>> THEN <<x>>
    ELSE IF localeLeq(sorted[Len(sorted)].key, x.key) THEN Append(sorted, x)
    ELSE Append(insertSorted(SubSeq(sorted, 1, Len(sorted) - 1), x), sorted[Len(sorted)])
RECURSIVE sortPairs(_)
sortPairs(s) ==
    IF s = <<>> THEN <<>>
    ELSE insertSorted(sortPairs(SubSeq(s, 1, Len(s) - 1)), s[Len(s)])
\* files.sort((a, b) => a.fileName.localeCompare(b.fileName))
sortFiles(files) ==
    LET sorted == sortPairs([k \in 1..Len(files) |-> [key |-> files[k].fileName, val |-> files[k]]])
    IN [k \in 1..Len(files) |-> sorted[k].val]

\* Array.from(groupsMap.keys()).sort((a, b) => a.localeCompare(b)), each with its files
sortGroups(groups) ==
    LET sorted == sortPairs([k \in 1..Len(groups) |-> [key |-> groups[k].name, val |-> groups[k]]])
    IN [k \in 1..Len(groups) |-> sorted[k].val]

\* buildGroupBuckets
buildGroupBuckets(hasGroups, flatFiles, groupsMap) ==
    IF ~hasGroups
    THEN <<[key |-> <<"_", "_", "A", "L", "L", "_", "_">>, name |-> <<>>,
            files |-> sortFiles(flatFiles)]>>
    ELSE LET gs == sortGroups(groupsMap)
         IN [k \in 1..Len(gs) |->
               [key |-> gs[k].name, name |-> gs[k].name, files |-> sortFiles(gs[k].files)]]

\* the merge of a file's children index into the global one
mergeChildren(global, local) ==
    [pid \in DOMAIN global \cup DOMAIN local |->
        (IF pid \in DOMAIN global THEN global[pid] ELSE <<>>)
        \o (IF pid \in DOMAIN local THEN local[pid] ELSE <<>>)]

EmptyMap == [x \in {} |-> <<>>]

\* one iteration of the loop over files in scanTasks
scanFile(acc, path, compiled, hasGroups, fs) ==
    LET merged(matched, r) ==
            addFileToGroups(
                [acc EXCEPT
                    !.cache = r.cache,
                    !.nextObj = IF r.read THEN @ + 1 ELSE @,
                    !.reads = IF r.read THEN @ \cup {path} ELSE @,
                    !.hits = IF r.read THEN @ ELSE @ \cup {path},
                    !.tasksByFile =
                        IF r.parse.entries = <<>> THEN @
                        ELSE [q \in DOMAIN @ \cup {path} |->
                                IF q = path THEN [obj |-> r.parse.obj, entries |-> r.parse.entries]
                                ELSE @[q]],
                    !.childrenById = mergeChildren(@, r.parse.childrenById)],
                path, extractFileName(path),
                [obj |-> r.parse.obj, entries |-> r.parse.entries], matched, hasGroups)
    IN IF getMatchedRules(path, compiled) = <<>> THEN acc
       ELSE merged(getMatchedRules(path, compiled),
                   getCachedFileParse(acc.cache, fs, path, acc.nextObj))

RECURSIVE scanLoop(_, _, _, _, _)
scanLoop(acc, files, compiled, hasGroups, fs) ==
    IF files = <<>> THEN acc
    ELSE scanLoop(scanFile(acc, Head(files), compiled, hasGroups, fs),
                  Tail(files), compiled, hasGroups, fs)

\* scanTasks: the ScanResult, with the cache afterwards, the object counter, and
\* the paths whose content was read (reads) or served from the cache (hits)
scanTasks(compiled, files, c, fs, nextObj) ==
    LET acc0 == [tasksByFile |-> EmptyMap, childrenById |-> EmptyMap, flatFiles |-> <<>>,
                 groupsMap |-> <<>>, cache |-> c, nextObj |-> nextObj,
                 reads |-> {}, hits |-> {}]
        result(hg, acc) ==
            [groups |-> buildGroupBuckets(hg, acc.flatFiles, acc.groupsMap),
             tasksByFile |-> acc.tasksByFile, childrenById |-> acc.childrenById,
             hasGroups |-> hg, cache |-> acc.cache, nextObj |-> acc.nextObj,
             reads |-> acc.reads, hits |-> acc.hits]
    IN IF compiled = <<>> \/ files = <<>>
       THEN [groups |-> <<>>, tasksByFile |-> EmptyMap, childrenById |-> EmptyMap,
             hasGroups |-> FALSE, cache |-> c, nextObj |-> nextObj, reads |-> {}, hits |-> {}]
       ELSE result(hasGroupsOf(compiled),
                   scanLoop(acc0, files, compiled, hasGroupsOf(compiled), fs))

-----------------------------------------------------------------------------
(* mountTable (ui/render): the row references rebuilt from a scan result.  *)

\* addTaskRow for every item of a file bucket; it returns without a row for an
\* entry whose line its pattern (anchored at the end of the line) does not match
bucketRows(b, groupKey, children) ==
    LET shown == SelectSeq(b.items.entries, LAMBDA e : matchesToEnd(e.originalLine))
    IN [k \in 1..Len(shown) |->
          [id |-> shown[k].id, parentId |-> shown[k].parentId, depth |-> shown[k].depth,
           hasChildren |-> (shown[k].id \in DOMAIN children /\ children[shown[k].id] # <<>>),
           filePath |-> shown[k].path, lineIndex |-> shown[k].lineIndex,
           originalLine |-> shown[k].originalLine]]

RECURSIVE filesRows(_, _, _)
filesRows(files, groupKey, children) ==
    IF files = <<>> THEN <<>>
    ELSE bucketRows(Head(files), groupKey, children) \o filesRows(Tail(files), groupKey, children)

RECURSIVE groupsRows(_, _)
groupsRows(groups, children) ==
    IF groups = <<>> THEN <<>>
    ELSE filesRows(Head(groups).files, Head(groups).key, children)
         \o groupsRows(Tail(groups), children)

\* store.rowRefs after mountTable applied the scan result
mountRows(result) == groupsRows(result.groups, result.childrenById)

\* store.rowById.get(id): the row set last under id
rowById(rows, id) ==
    LET ks == {k \in 1..Len(rows) : rows[k].id = id}
    IN rows[CHOOSE k \in ks : \A j \in ks : j <= k]

-----------------------------------------------------------------------------
(* Relocation engine (io/move).                                            *)

\* lines[i] ?? fallback
lineOr(lines, i, fallback) == IF 0 <= i /\ i < Len(lines) THEN lines[i + 1] ELSE fallback

\* the extract-block loop with a fault: a line that is no task is passed over
\* and the block goes on behind it
RECURSIVE blockEndThroughProse(_, _, _, _)
blockEndThroughProse(lines, i, srcDepth, end) ==
    IF i >= Len(lines) THEN end
    ELSE IF ~TASK_RX(lines[i + 1]) THEN blockEndThroughProse(lines, i + 1, srcDepth, end)
    ELSE IF getIndentDepth(lines[i + 1]) <= srcDepth THEN end
    ELSE blockEndThroughProse(lines, i + 1, srcDepth, i)

\* the extract-block loop: for (i = start + 1; i < lines.length; i++) ...
RECURSIVE blockEndFrom(_, _, _, _)
blockEndFrom(lines, i, srcDepth, end) ==
    IF i >= Len(lines) THEN end
    ELSE IF ~TASK_RX(lines[i + 1]) THEN end
    ELSE IF getIndentDepth(lines[i + 1]) <= srcDepth THEN end
    ELSE blockEndFrom(lines, i + 1, srcDepth, i)

blockEnd(lines, start, srcDepth) == blockEndFrom(lines, start + 1, srcDepth, start)

\* the last index of the block as relocateSubtree, moveSubtreeToFileEnd and
\* deleteSubtree compute it from the lines read: srcDepth from the line at the
\* row's index, then the loop
extractBlockEnd(lines, row) ==
    blockEnd(lines, row.lineIndex, getIndentDepth(lineOr(lines, row.lineIndex, row.originalLine)))

\* the depth-adjusting map over the block
adjustBlock(block, newDepth, srcDepth) ==
    [k \in 1..Len(block) |->
        IF ~TASK_RX(block[k]) THEN block[k]
        ELSE lineWithDepth(block[k], Max2(1, getIndentDepth(block[k]) + (newDepth - srcDepth)))]

\* vault.modify(file, content): the content replaces the document's and the
\* modification timestamp advances
modify(fs, path, content) ==
    [fs EXCEPT ![path] = [content |-> content, mtime |-> @.mtime + 1]]

\* relocatePlan with a fault: only the source line is spliced out of the source,
\* its descendants stay behind while the whole block is inserted
relocatePlanOneLine(srcLines, source, newDepth) ==
    LET start == source.lineIndex
        block(srcDepth, end) ==
            [start |-> start, srcDepth |-> srcDepth, end |-> end, blockLen |-> end - start + 1,
             adjustedBlock |-> adjustBlock(slice(srcLines, start, end + 1), newDepth, srcDepth),
             srcAfter |-> spliceOut(srcLines, start, 1)]
        from(srcDepth) == block(srcDepth, blockEnd(srcLines, start, srcDepth))
    IN from(getIndentDepth(lineOr(srcLines, start, source.originalLine)))

\* relocatePlan with a fault: a line at the row's index that is no task line (or
\* no line there) makes the plan empty, as the early returns of deleteSubtree do
relocatePlanTaskOnly(srcLines, source, newDepth) ==
    LET start == source.lineIndex
        block(srcDepth, end) ==
            [start |-> start, srcDepth |-> srcDepth, end |-> end, blockLen |-> end - start + 1,
             adjustedBlock |-> adjustBlock(slice(srcLines, start, end + 1), newDepth, srcDepth),
             srcAfter |-> spliceOut(srcLines, start, end - start + 1)]
        from(srcDepth) == block(srcDepth, blockEnd(srcLines, start, srcDepth))
    IN IF start < Len(srcLines) /\ TASK_RX(srcLines[start + 1])
       THEN from(getIndentDepth(lineOr(srcLines, start, source.originalLine)))
       ELSE [start |-> start, srcDepth |-> 1, end |-> start, blockLen |-> 0,
             adjustedBlock |-> <<>>, srcAfter |-> srcLines]

\* relocateSubtree, first part: what is computed from the source read
relocatePlan(srcLines, source, newDepth) ==
    LET start == source.lineIndex
        block(srcDepth, end) ==
            [start |-> start, srcDepth |-> srcDepth, end |-> end, blockLen |-> end - start + 1,
             adjustedBlock |-> adjustBlock(slice(srcLines, start, end + 1), newDepth, srcDepth),
             srcAfter |-> spliceOut(srcLines, start, end - start + 1)]
        from(srcDepth) == block(srcDepth, blockEnd(srcLines, start, srcDepth))
    IN from(getIndentDepth(lineOr(srcLines, start, source.originalLine)))

\* relocateDest with a fault: the insertion index is not shifted down by the
\* length of the block removed above it
relocateDestNoShift(plan, samePath, destRead, insertAtIn) ==
    LET insert(destLines) ==
            spliceIn(destLines, Max2(0, Min2(Len(destLines), insertAtIn)), plan.adjustedBlock)
    IN insert(IF samePath THEN plan.srcAfter ELSE split(destRead))

\* relocateSubtree, second part: the destination line array after the insertion;
\* destRead is the destination's content as read after the source write
relocateDest(plan, samePath, destRead, insertAtIn) ==
    LET shifted == IF samePath /\ plan.start < insertAtIn THEN insertAtIn - plan.blockLen
                   ELSE insertAtIn
        insert(destLines) ==
            spliceIn(destLines, Max2(0, Min2(Len(destLines), shifted)), plan.adjustedBlock)
    IN insert(IF samePath THEN plan.srcAfter ELSE split(destRead))

\* relocateSubtree run to completion with every read and write succeeding
relocateSubtree(fs, source, destFilePath, insertAtIn, newDepth) ==
    LET second(plan, fs1) ==
            modify(fs1, destFilePath,
                   join(relocateDest(plan, source.filePath = destFilePath,
                                     fs1[destFilePath].content, insertAtIn)))
        first(plan) == second(plan, modify(fs, source.filePath, join(plan.srcAfter)))
    IN first(relocatePlan(split(fs[source.filePath].content), source, newDepth))

\* getPreviousRowInFile / getNextRowInFile over store.rowRefs; NoRow is null
NoRow == [id |-> NoId]
firstIndexOf(rows, id) == CHOOSE k \in 1..Len(rows) :
                              rows[k].id = id /\ \A j \in 1..(k - 1) : rows[j].id # id
getPreviousRowInFile(rows, ref) ==
    LET idx  == firstIndexOf(rows, ref.id)
        cand == {i \in 1..(idx - 1) : rows[i].filePath = ref.filePath}
    IN IF cand = {} THEN NoRow ELSE rows[CHOOSE i \in cand : \A j \in cand : j <= i]
getNextRowInFile(rows, ref) ==
    LET idx  == firstIndexOf(rows, ref.id)
        cand == {i \in (idx + 1)..Len(rows) : rows[i].filePath = ref.filePath}
    IN IF cand = {} THEN NoRow ELSE rows[CHOOSE i \in cand : \A j \in cand : i <= j]

\* moveAsTopChild: the arguments it hands to relocateSubtree
moveAsTopChild(source, parent) ==
    [dest |-> parent.filePath, insertAt |-> parent.lineIndex + 1, newDepth |-> parent.depth + 1]

\* moveBetweenWithMaxNeighborDepth: the arguments it hands to relocateSubtree
moveBetweenWithMaxNeighborDepth(rows, source, target, after) ==
    LET aboveRow == IF after THEN target ELSE getPreviousRowInFile(rows, target)
        belowRow == IF after THEN getNextRowInFile(rows, target) ELSE target
        da       == IF aboveRow # NoRow THEN aboveRow.depth ELSE 1
        db       == IF belowRow # NoRow THEN belowRow.depth ELSE 1
    IN [dest |-> target.filePath,
        insertAt |-> IF after THEN target.lineIndex + 1 ELSE target.lineIndex,
        newDepth |-> Max2(Max2(da, db), 1)]

\* appendAtEnd with a fault: the block goes after the trailing empty line
appendAtEndAfterBlank(destRead, adjusted) ==
    LET insert(dLines) == join(spliceIn(dLines, Len(dLines), adjusted))
        ended(out) == IF endsWithNewline(out) THEN out ELSE out \o <<"\n">>
    IN ended(insert(split(destRead)))

\* the content moveSubtreeToFileEnd writes to the destination
appendAtEnd(destRead, adjusted) ==
    LET insertAt(dLines) == IF Len(dLines) > 0 /\ dLines[Len(dLines)] = <<>>
                            THEN Len(dLines) - 1 ELSE Len(dLines)
        insert(dLines) == join(spliceIn(dLines, insertAt(dLines), adjusted))
        ended(out) == IF endsWithNewline(out) THEN out ELSE out \o <<"\n">>
    IN ended(insert(split(destRead)))

\* moveSubtreeToFileEnd run to completion with every read and write succeeding
moveSubtreeToFileEnd(fs, source, destFilePath, newDepth) ==
    LET second(plan, fs1) ==
            modify(fs1, destFilePath, appendAtEnd(fs1[destFilePath].content, plan.adjustedBlock))
        first(plan) == second(plan, modify(fs, source.filePath, join(plan.srcAfter)))
    IN first(relocatePlan(split(fs[source.filePath].content), source, newDepth))

\* deleteSubtree: TRUE when the early returns are passed and the write happens
deleteWrites(lines, row) ==
    /\ row.lineIndex >= 0 /\ row.lineIndex < Len(lines)
    /\ TASK_RX(lineOr(lines, row.lineIndex, row.originalLine))

\* deleteSubtree with a fault: only the row's own line is removed
deleteSubtreeOneLine(fs, row) ==
    LET delete(lines) ==
            IF ~deleteWrites(lines, row) THEN fs
            ELSE modify(fs, row.filePath, join(spliceOut(lines, row.lineIndex, 1)))
    IN delete(split(fs[row.filePath].content))

deleteSubtree(fs, row) ==
    LET start == row.lineIndex
        cut(lines, end) == modify(fs, row.filePath, join(spliceOut(lines, start, end - start + 1)))
        from(lines, srcDepth) == cut(lines, blockEnd(lines, start, srcDepth))
        delete(lines) ==
            IF ~deleteWrites(lines, row) THEN fs
            ELSE from(lines, getIndentDepth(lineOr(lines, start, row.originalLine)))
    IN delete(split(fs[row.filePath].content))

-----------------------------------------------------------------------------
(* State.                                                                  *)

VARIABLES
    fs,         \* the vault: path -> [content, mtime]
    cache,      \* TASK_PARSE_CACHE: path -> [mtime, obj, entries, childrenById]
    nextObj,    \* the next free object identity (allocation counter)
    settings,   \* store.settings.regexRules, the raw rules
    store,      \* Store: tasksByFile, childrenById, rowRefs, squelchScanDepth
    op,         \* the last operation run: its arguments and the state before it
    events,     \* change notifications of the vault not yet delivered to the listener
    timer,      \* TRUE while the debounced autoscan trigger is pending
    pc,         \* the position of the user handler in flight, between two awaits
    owed,       \* per path: what a delivered notification of an external edit still awaits
    unpurged,   \* paths a move or delete wrote that no scan has looked up since
    budget,     \* how many external edits, refreshes, user operations and autosaves have begun
    save        \* the debounced autosave: idle, armed by an input, or saveEdits in flight

vars == <<fs, cache, nextObj, settings, store, op, events, timer, pc, owed, unpurged, budget, save>>

\* mountTable run to completion: compileRules, scanTasks, applyScan, the rows
mountTable(c, files, rules, squelch, obj) ==
    LET mounted(result) ==
            [cache |-> result.cache, nextObj |-> result.nextObj,
             reads |-> result.reads, hits |-> result.hits, groups |-> result.groups,
             store |-> [tasksByFile |-> result.tasksByFile, childrenById |-> result.childrenById,
                        rowRefs |-> mountRows(result), squelchScanDepth |-> squelch]]
    IN mounted(scanTasks(compileRules(rules), IndexedFiles, c, files, obj))

-----------------------------------------------------------------------------
(* Bounded inputs.                                                         *)

MaxLenA == 3        \* lines of document A.md

task(indent, bullet, box, text) == indent \o <<bullet, " ", "[", box, "]", " ">> \o text

LineA  == task(<<>>, "-", " ", <<"a">>)                 \* "- [ ] a"
LineB  == task(<<" ", " ">>, "-", "x", <<"b">>)         \* "  - [x] b"
LineC  == task(<<"\t", "\t">>, "*", "X", <<"c">>)       \* "\t\t* [X] c"
LineN  == <<"n">>                                       \* not a task line

SeqsUpTo(S, n) == UNION {[1..k -> S] : k \in 1..n}

\* a document: lines joined by "\n", with or without a final newline
DocsOf(S, n) == {join(ls) : ls \in SeqsUpTo(S, n)}
                  \cup {join(ls) \o <<"\n">> : ls \in SeqsUpTo(S, n)}

DocsA == DocsOf({LineA, LineB, LineC, LineN}, MaxLenA)
\* B.md holds one root task, with and without a final newline
DocsB == {LineA, LineA \o <<"\n">>}

Rule(name, paths) == [name |-> name, re |-> [ok |-> TRUE, paths |-> paths]]

\* flat mode; grouped mode with A.md under two groups
RuleConfigs == { <<Rule(<<>>, Paths)>>,
                 <<Rule(<<"G">>, Paths), Rule(<<"H">>, {"A.md"})>> }

NoOp == [kind |-> "none"]

\* no user handler is in flight
Idle == [at |-> "idle"]

\* nothing pending: no notification in flight, no timer, no handler, nothing owed
Quiet ==
    /\ events = {}
    /\ timer = FALSE
    /\ pc = Idle
    /\ owed = [p \in Paths |-> 0]
    /\ unpurged = {}
    /\ budget = [edits |-> 0, scans |-> 0, ops |-> 0, saves |-> 0]
    /\ save = Idle

\* the state once onOpen has mounted the table over the given documents
Mounted(a, b, rules) ==
    LET files == [p \in Paths |-> [content |-> IF p = "A.md" THEN a ELSE b, mtime |-> 1]]
    IN \E m \in {mountTable(EmptyMap, files, rules, 0, 1)} :
          /\ fs = files
          /\ settings = rules
          /\ cache = m.cache
          /\ nextObj = m.nextObj
          /\ store = m.store
          /\ op = NoOp
          /\ Quiet

Init == \E a \in DocsA, b \in DocsB, rules \in RuleConfigs : Mounted(a, b, rules)

-----------------------------------------------------------------------------
(* User operations, each run to completion (no other handler interleaves). *)

\* the handler's tail: the record of the operation and the remount (mountTable)
\* over the documents fs1 the operation left
Outcome(kind, source, target, after, args, fs1) ==
    LET outcome(m) ==
            [fs |-> fs1, cache |-> m.cache, nextObj |-> m.nextObj, store |-> m.store,
             op |-> [kind |-> kind, source |-> source, target |-> target, after |-> after,
                     dest |-> args.dest, insertAt |-> args.insertAt, newDepth |-> args.newDepth,
                     before |-> fs, rows |-> store.rowRefs,
                     end |-> extractBlockEnd(split(fs[source.filePath].content), source),
                     objBefore |-> nextObj,
                     writes |-> [p \in Paths |-> fs1[p].mtime - fs[p].mtime],
                     reads |-> m.reads, hits |-> m.hits]]
    IN outcome(mountTable(cache, fs1, settings, store.squelchScanDepth, nextObj))

Apply(out) ==
    /\ fs' = out.fs
    /\ cache' = out.cache
    /\ nextObj' = out.nextObj
    /\ store' = out.store
    /\ op' = out.op
    /\ UNCHANGED <<settings, events, timer, pc, owed, unpurged, budget, save>>

\* onRowDrop with hover mode "on": moveAsTopChild inside withSquelch, then mountTable
onRowDropOn(source, target) ==
    LET moved(args) ==
            Outcome("child", source, target, FALSE, args,
                    relocateSubtree(fs, source, args.dest, args.insertAt, args.newDepth))
    IN moved(moveAsTopChild(source, target))

DropOn(sourceId, t) ==
    /\ op = NoOp
    /\ sourceId # store.rowRefs[t].id
    /\ \E out \in {onRowDropOn(rowById(store.rowRefs, sourceId), store.rowRefs[t])} :
          Apply(out)

\* onRowDrop with hover mode "before"/"after": moveBetweenWithMaxNeighborDepth
onRowDropBetween(source, target, after) ==
    LET moved(args) ==
            Outcome("between", source, target, after, args,
                    relocateSubtree(fs, source, args.dest, args.insertAt, args.newDepth))
    IN moved(moveBetweenWithMaxNeighborDepth(store.rowRefs, source, target, after))

DropBetween(sourceId, t, after) ==
    /\ op = NoOp
    /\ sourceId # store.rowRefs[t].id
    /\ \E out \in {onRowDropBetween(rowById(store.rowRefs, sourceId),
                                     store.rowRefs[t], after)} :
          Apply(out)

\* drop on a file's placeholder row: moveSubtreeToFileEnd(source, filePath, 1)
onPlaceholderDrop(source, filePath) ==
    Outcome("end", source, NoRow, FALSE,
            [dest |-> filePath, insertAt |-> -1, newDepth |-> 1],
            moveSubtreeToFileEnd(fs, source, filePath, 1))

DropAtEnd(sourceId, filePath) ==
    /\ op = NoOp
    /\ filePath \in DOMAIN store.tasksByFile
    /\ \E out \in {onPlaceholderDrop(rowById(store.rowRefs, sourceId), filePath)} :
          Apply(out)

\* the delete button: deleteSubtree inside withSquelch, then mountTable
onDeleteClick(row) ==
    Outcome("delete", row, NoRow, FALSE,
            [dest |-> row.filePath, insertAt |-> -1, newDepth |-> row.depth],
            deleteSubtree(fs, row))

Delete(t) ==
    /\ op = NoOp
    /\ \E out \in {onDeleteClick(store.rowRefs[t])} : Apply(out)

RowIds == {store.rowRefs[k].id : k \in 1..Len(store.rowRefs)}

Next ==
    \/ \E id \in RowIds, t \in 1..Len(store.rowRefs) : DropOn(id, t)
    \/ \E id \in RowIds, t \in 1..Len(store.rowRefs), after \in BOOLEAN : DropBetween(id, t, after)
    \/ \E id \in RowIds, p \in Paths : DropAtEnd(id, p)
    \/ \E t \in 1..Len(store.rowRefs) : Delete(t)

Spec == Init /\ [][Next]_vars

-----------------------------------------------------------------------------
(* The autoscan listener (wireAutoscan) and the scans of the view.         *)

MaxScanLen == 3     \* lines of document A.md when the scanner is examined
MaxEdits   == 1     \* external edits in a behaviour
MaxScans   == 1     \* refreshes of the view in a behaviour

\* owed[p]: 0 nothing; 1 a notification of an external edit of p was discarded;
\* 2 it invalidated p and armed the trigger. A scan looks every indexed path up
\* and reads the documents whose timestamp changed: it settles what is owed.
Settled == [p \in Paths |-> 0]

\* mountTable run to completion, with the record of what the scan found and did
\* mountTable empties the table and builds its rows anew: what was typed into a
\* text cell and not yet saved is no longer in any row
retyped(s) == IF s = Idle THEN s ELSE [s EXCEPT !.typed = FALSE]

Remount(by) ==
    \E m \in {mountTable(cache, fs, settings, store.squelchScanDepth, nextObj)} :
        /\ save' = retyped(save)
        /\ cache' = m.cache
        /\ nextObj' = m.nextObj
        /\ store' = m.store
        /\ op' = [kind |-> "mount", by |-> by, before |-> fs, cacheBefore |-> cache,
                  cacheAfter |-> m.cache, objBefore |-> nextObj,
                  reads |-> m.reads, hits |-> m.hits, groups |-> m.groups, rules |-> settings,
                  stale |-> unpurged \cap DOMAIN cache]
        /\ owed' = Settled
        /\ unpurged' = {}

\* refresh of the view: mountTable
Refresh ==
    /\ budget.scans < MaxScans
    /\ Remount("view")
    /\ budget' = [budget EXCEPT !.scans = @ + 1]
    /\ UNCHANGED <<fs, settings, events, timer, pc>>

\* the contents an edit outside the plugin leaves in a document: nothing, or
\* a task with two children, the first two levels deeper than it, and a second
\* task after a line that is no task
EditedDocs == {<<>>, join(<<LineA, LineC, LineB, LineN, LineA>>)}

\* another program writes a document: the vault will notify the listener
ExternalEdit(p, doc) ==
    /\ budget.edits < MaxEdits
    /\ doc # fs[p].content
    /\ fs' = modify(fs, p, doc)
    /\ events' = events \cup {[path |-> p, origin |-> "external", n |-> budget.edits]}
    /\ budget' = [budget EXCEPT !.edits = @ + 1]
    /\ UNCHANGED <<cache, nextObj, settings, store, op, timer, pc, owed, unpurged, save>>

\* the listener with a fault: it does not look at the squelch counter
handlerUnsquelched(e) ==
    /\ e \in events
    /\ events' = events \ {e}
    /\ cache' = invalidateCachedFile(cache, e.path)
    /\ timer' = TRUE
    /\ owed' = IF e.origin = "external" \/ owed[e.path] = 1
               THEN [owed EXCEPT ![e.path] = 2] ELSE owed
    /\ UNCHANGED <<fs, nextObj, settings, store, op, pc, unpurged, budget, save>>

\* the listener of wireAutoscan on one notification of an indexed markdown file:
\* nothing while squelched; else invalidateCachedFile and the debounced trigger
handler(e) ==
    /\ e \in events
    /\ events' = events \ {e}
    /\ IF store.squelchScanDepth > 0
       THEN /\ owed' = IF e.origin = "external" THEN [owed EXCEPT ![e.path] = 1] ELSE owed
            /\ UNCHANGED <<cache, timer>>
       ELSE /\ cache' = invalidateCachedFile(cache, e.path)
            /\ timer' = TRUE
            /\ owed' = IF e.origin = "external" \/ owed[e.path] = 1
                       THEN [owed EXCEPT ![e.path] = 2] ELSE owed
    /\ UNCHANGED <<fs, nextObj, settings, store, op, pc, unpurged, budget, save>>

\* the debounced trigger fires: onTrigger is mountTable
run ==
    /\ timer
    /\ timer' = FALSE
    /\ Remount("autoscan")
    /\ UNCHANGED <<fs, settings, events, pc, budget>>

\* the 0-based position of a path among the indexed files
indexOfFile(path) == (CHOOSE k \in 1..Len(IndexedFiles) : IndexedFiles[k] = path) - 1

\* getCachedFileParse with a fault: the entry is stored under the document's
\* timestamp before the read is awaited, so a rejected read leaves it behind
scanRejectedStoring(compiled, c, files, obj, path) ==
    LET acc0 == [tasksByFile |-> EmptyMap, childrenById |-> EmptyMap, flatFiles |-> <<>>,
                 groupsMap |-> <<>>, cache |-> c, nextObj |-> obj, reads |-> {}, hits |-> {}]
        stored(acc) ==
            [cache |-> [q \in DOMAIN acc.cache \cup {path} |->
                           IF q = path
                           THEN [mtime |-> files[path].mtime, obj |-> acc.nextObj,
                                 entries |-> <<>>, childrenById |-> EmptyMap]
                           ELSE acc.cache[q]],
             nextObj |-> acc.nextObj, reads |-> acc.reads,
             miss |-> ~cacheHit(acc.cache, path, files[path].mtime)]
    IN stored(scanLoop(acc0, slice(IndexedFiles, 0, indexOfFile(path)), compiled,
                       hasGroupsOf(compiled), files))

\* scanTasks up to the file whose read rejects: the files before it have gone
\* through the loop (their parses are in the cache), the maps and buckets built
\* so far are locals of scanTasks and are dropped with the rejection; miss tells
\* that getCachedFileParse found no entry of the timestamp and went on to read
scanRejected(compiled, c, files, obj, path) ==
    LET acc0 == [tasksByFile |-> EmptyMap, childrenById |-> EmptyMap, flatFiles |-> <<>>,
                 groupsMap |-> <<>>, cache |-> c, nextObj |-> obj, reads |-> {}, hits |-> {}]
        rejected(acc) ==
            [cache |-> acc.cache, nextObj |-> acc.nextObj, reads |-> acc.reads,
             miss |-> ~cacheHit(acc.cache, path, files[path].mtime)]
    IN rejected(scanLoop(acc0, slice(IndexedFiles, 0, indexOfFile(path)), compiled,
                         hasGroupsOf(compiled), files))

\* mountTable when vault.read of path rejects inside getCachedFileParse: the scan
\* reads path (a rule matches it and the cache has no entry of its timestamp), the
\* rejection leaves scanTasks and mountTable before applyScan and before the
\* table is emptied
RemountRejects(by, path) ==
    \E compiled \in {compileRules(settings)} :
        /\ getMatchedRules(path, compiled) # <<>>
        /\ \E acc \in {scanRejected(compiled, cache, fs, nextObj, path)} :
              /\ acc.miss
              /\ cache' = acc.cache
              /\ nextObj' = acc.nextObj
              /\ op' = [kind |-> "scanFailed", by |-> by, path |-> path, before |-> fs,
                        cacheBefore |-> cache, cacheAfter |-> acc.cache,
                        storeBefore |-> store, reads |-> acc.reads]
        /\ UNCHANGED <<fs, settings, store, events, pc, owed, unpurged, save>>

\* refresh of the view with a read that rejects
RefreshRejects(path) ==
    /\ budget.scans < MaxScans
    /\ RemountRejects("view", path)
    /\ budget' = [budget EXCEPT !.scans = @ + 1]
    /\ timer' = timer

\* the debounced trigger fires and a read of its mountTable rejects
runRejects(path) ==
    /\ timer
    /\ timer' = FALSE
    /\ RemountRejects("autoscan", path)
    /\ budget' = budget

\* documents of up to MaxScanLen lines of depth 1, 2, 3 and non-task lines
DocsScan == {join(ls) : ls \in SeqsUpTo({LineA, LineB, LineC, LineN}, MaxScanLen)}

InitScan == \E a \in DocsScan : Mounted(a, LineA, <<Rule(<<>>, Paths)>>)

NextScan ==
    \/ Refresh
    \/ \E p \in Paths, doc \in EditedDocs : ExternalEdit(p, doc)
    \/ \E e \in events : handler(e)
    \/ run
    \/ \E p \in Paths : RefreshRejects(p)
    \/ \E p \in Paths : runRejects(p)

SpecScan == InitScan /\ [][NextScan]_vars

-----------------------------------------------------------------------------
(* The user handlers in steps: a handler in flight stops at each await, and *)
(* notifications, the debounced trigger, external edits and other mounts    *)
(* run between its steps.                                                   *)

MaxOps == 1         \* user operations begun in a behaviour

\* buildLine(originalLine, checked, text)
buildLine(originalLine, checked, text) ==
    LET k   == leadLen(originalLine)
        box == <<"[", IF checked THEN "x" ELSE " ", "]", " ">>
    IN IF matchesToEnd(originalLine)
       THEN SubSeq(originalLine, 1, k + 2) \o box \o text
       ELSE <<"-", " ">> \o box \o text

\* what addTaskRow shows of a task line: the checkbox state and the text
rowChecked(line) == line[leadLen(line) + 4] # " "
rowText(line) == SubSeq(line, leadLen(line) + 7, Len(line))

\* the finally clause of withSquelch with a fault: the counter as a flag that
\* leaving a section clears
squelchClear(s, n) == [s EXCEPT !.squelchScanDepth = 0]

\* withSquelch: entry, and the finally clause
squelchUp(s, n) == [s EXCEPT !.squelchScanDepth = @ + n]
squelchDown(s, n) == [s EXCEPT !.squelchScanDepth = Max2(0, @ - n)]

\* what the user types into a text cell
Typed == <<"e">>

\* editable.textContent of row i: what addTaskRow put there, or what was typed
\* into it since, as long as the table of that input is the one shown
textContent(rows, i) ==
    IF save # Idle /\ save.typed /\ save.row = i THEN Typed
    ELSE rowText(rows[i].originalLine)

\* a handler in flight: its kind, its arguments, what it has computed so far; seen
\* is the mtime of the content it holds of the document it writes next, stale
\* tells that its last write replaced content it had not read
InFlight(kind, source, dest, insertAt, newDepth) ==
    [at |-> "readSrc", kind |-> kind, source |-> source, dest |-> dest,
     insertAt |-> insertAt, newDepth |-> newDepth, plan |-> <<>>, content |-> <<>>,
     wrote |-> FALSE, row |-> 0, rows |-> store.rowRefs, before |-> fs,
     text |-> <<>>, seen |-> 0, stale |-> FALSE]

\* a handler begins: one more operation, nothing else touched
Begin(handlerPc, squelchBy) ==
    /\ pc = Idle
    /\ budget.ops < MaxOps
    /\ pc' = handlerPc
    /\ store' = squelchUp(store, squelchBy)
    /\ budget' = [budget EXCEPT !.ops = @ + 1]
    /\ UNCHANGED <<fs, cache, nextObj, settings, op, events, timer, owed, unpurged, save>>

\* onRowDrop up to relocateSubtree's read of the source: withSquelch entered
onRowDrop(sourceId, t, mode) ==
    /\ sourceId # store.rowRefs[t].id
    /\ \E source \in {rowById(store.rowRefs, sourceId)} :
       \E args \in {IF mode = "on" THEN moveAsTopChild(source, store.rowRefs[t])
                    ELSE moveBetweenWithMaxNeighborDepth(store.rowRefs, source,
                                                         store.rowRefs[t], mode = "after")} :
           Begin(InFlight("drop", source, args.dest, args.insertAt, args.newDepth), 1)

\* the placeholder's drop listener up to moveSubtreeToFileEnd's read of the source
onPlaceholderDropBegin(sourceId, filePath) ==
    /\ filePath \in DOMAIN store.tasksByFile
    /\ Begin(InFlight("end", rowById(store.rowRefs, sourceId), filePath, -1, 1), 1)

\* the placeholder's input listener (commit) up to createNewTaskAtEnd's read:
\* the text typed into the placeholder, trimmed, is not empty
onPlaceholderInput(filePath) ==
    /\ filePath \in DOMAIN store.tasksByFile
    /\ Begin([InFlight("create", NoRow, filePath, -1, 0)
                 EXCEPT !.at = "readRow", !.text = trim(Typed)], 1)

\* delBtn.onclick up to deleteSubtree's read
onDeleteClickBegin(t) ==
    Begin([InFlight("delete", store.rowRefs[t], store.rowRefs[t].filePath, -1, 0)
              EXCEPT !.at = "readRow"], 1)

\* cb.onchange up to saveRowImmediate's read, inside withSquelch: the checkbox
\* has changed to the opposite of what the row showed
onCheckboxChange(t) ==
    Begin([InFlight("toggle", store.rowRefs[t], store.rowRefs[t].filePath, -1, 0)
              EXCEPT !.at = "readRow", !.row = t, !.text = textContent(store.rowRefs, t)], 1)

\* the handler in flight awaits vault.modify
Modifying == pc # Idle /\ pc.at \in {"modifySrc", "modifyDest", "modifyRow"}

\* vault.modify at work, before its promise resolves: the content is in the
\* document and the vault has a notification for the listeners; a move or
\* delete has written the path
vaultModify ==
    /\ Modifying /\ ~pc.wrote
    /\ \E path \in {IF pc.at = "modifySrc" THEN pc.source.filePath ELSE pc.dest} :
          /\ fs' = modify(fs, path, pc.content)
          /\ events' = events \cup {[path |-> path, origin |-> "self",
                                      n |-> 2 * budget.ops + (IF pc.at = "modifyDest" THEN 2 ELSE 1)]}
          /\ unpurged' = IF pc.kind \in {"toggle", "create"} THEN unpurged ELSE unpurged \cup {path}
          /\ pc' = [pc EXCEPT !.wrote = TRUE, !.stale = (fs[path].mtime # pc.seen),
                              !.seen = fs[path].mtime + 1]
    /\ UNCHANGED <<cache, nextObj, settings, store, op, timer, owed, budget, save>>

\* the source was read: the block, and the write of the source without it
\* (relocateSubtree enters withSquelch for it, moveSubtreeToFileEnd does not)
afterReadSrc ==
    /\ pc # Idle /\ pc.at = "readSrc"
    /\ \E plan \in {relocatePlan(split(fs[pc.source.filePath].content), pc.source, pc.newDepth)} :
          pc' = [pc EXCEPT !.at = "modifySrc", !.plan = plan, !.content = join(plan.srcAfter),
                           !.seen = fs[pc.source.filePath].mtime]
    /\ store' = IF pc.kind = "drop" THEN squelchUp(store, 1) ELSE store
    /\ UNCHANGED <<fs, cache, nextObj, settings, op, events, timer, owed, unpurged, budget, save>>

\* the write of the source resolved. relocateSubtree leaves withSquelch; within one
\* document it goes on with the lines it holds and enters withSquelch again to
\* write them, else it reads the destination; moveSubtreeToFileEnd always reads
afterModifySrc ==
    /\ pc # Idle /\ pc.at = "modifySrc" /\ pc.wrote
    /\ IF pc.kind = "drop" /\ pc.source.filePath = pc.dest
       THEN /\ pc' = [pc EXCEPT !.at = "modifyDest", !.wrote = FALSE,
                                !.content = join(relocateDest(pc.plan, TRUE, <<>>, pc.insertAt))]
            /\ store' = store
       ELSE /\ pc' = [pc EXCEPT !.at = "readDest", !.wrote = FALSE]
            /\ store' = IF pc.kind = "drop" THEN squelchDown(store, 1) ELSE store
    /\ UNCHANGED <<fs, cache, nextObj, settings, op, events, timer, owed, unpurged, budget, save>>

\* the destination was read: the write of it with the block inserted
afterReadDest ==
    /\ pc # Idle /\ pc.at = "readDest"
    /\ pc' = [pc EXCEPT !.at = "modifyDest", !.seen = fs[pc.dest].mtime,
                        !.content = IF pc.kind = "drop"
                                    THEN join(relocateDest(pc.plan, FALSE, fs[pc.dest].content,
                                                           pc.insertAt))
                                    ELSE appendAtEnd(fs[pc.dest].content, pc.plan.adjustedBlock)]
    /\ store' = IF pc.kind = "drop" THEN squelchUp(store, 1) ELSE store
    /\ UNCHANGED <<fs, cache, nextObj, settings, op, events, timer, owed, unpurged, budget, save>>

\* the write of the destination resolved: every withSquelch is left, mountTable is next
afterModifyDest ==
    /\ pc # Idle /\ pc.at = "modifyDest" /\ pc.wrote
    /\ pc' = [pc EXCEPT !.at = "mount", !.wrote = FALSE]
    /\ store' = squelchDown(store, IF pc.kind = "drop" THEN 2 ELSE 1)
    /\ UNCHANGED <<fs, cache, nextObj, settings, op, events, timer, owed, unpurged, budget, save>>

\* rowRef.originalLine = buildLine(...) on the row the listener was made for,
\* if the table still shows it
rowRebuilt(rows) ==
    IF rows # pc.rows THEN rows
    ELSE [rows EXCEPT ![pc.row].originalLine =
              buildLine(@, ~rowChecked(pc.source.originalLine), textContent(rows, pc.row))]

\* the handler returns: withSquelch is left; delete goes on to mountTable,
\* the checkbox listener rebuilds its row's line and ends
returned(s) ==
    /\ pc' = IF pc.kind = "delete" THEN [pc EXCEPT !.at = "mount", !.wrote = FALSE] ELSE Idle
    /\ store' = IF pc.kind \in {"delete", "create"} THEN squelchDown(s, 1)
                ELSE [squelchDown(s, 1) EXCEPT !.rowRefs = rowRebuilt(@)]

\* the content createNewTaskAtEnd writes: the new task before the single trailing
\* empty line if there is one, and a final newline
createNewTaskAtEnd(content, text) ==
    LET insertAt(lines) == IF Len(lines) > 0 /\ lines[Len(lines)] = <<>>
                           THEN Len(lines) - 1 ELSE Len(lines)
        insert(lines) == join(spliceIn(lines, insertAt(lines),
                                       <<(<<"-", " ", "[", " ", "]", " ">> \o text)>>))
        ended(out) == IF endsWithNewline(out) THEN out ELSE out \o <<"\n">>
    IN ended(insert(IF Len(content) > 0 THEN split(content) ELSE <<>>))

\* deleteSubtree / saveRowImmediate / createNewTaskAtEnd after the read: the early
\* returns, or the write of the document without the block / with the rebuilt
\* line / with the new task
afterReadRow ==
    /\ pc # Idle /\ pc.at = "readRow"
    /\ \E lines \in {split(fs[pc.dest].content)}, seen \in {fs[pc.dest].mtime} :
          IF pc.kind = "delete"
          THEN IF deleteWrites(lines, pc.source)
               THEN /\ pc' = [pc EXCEPT !.at = "modifyRow", !.seen = seen,
                                        !.content = deleteSubtree(fs, pc.source)[pc.dest].content]
                    /\ store' = store
               ELSE returned(store)
          ELSE IF pc.kind = "create"
          THEN /\ pc' = [pc EXCEPT !.at = "modifyRow", !.seen = seen,
                                   !.content = createNewTaskAtEnd(fs[pc.dest].content, pc.text)]
               /\ store' = store
          ELSE \E newLine \in {buildLine(pc.source.originalLine,
                                         ~rowChecked(pc.source.originalLine),
                                         trim(pc.text))} :
                  IF \/ pc.source.lineIndex >= Len(lines)
                     \/ lines[pc.source.lineIndex + 1] = newLine
                  THEN returned(store)
                  ELSE /\ pc' = [pc EXCEPT !.at = "modifyRow", !.seen = seen,
                                           !.content = join([lines EXCEPT
                                                ![pc.source.lineIndex + 1] = newLine])]
                       /\ store' = store
    /\ UNCHANGED <<fs, cache, nextObj, settings, op, events, timer, owed, unpurged, budget, save>>

\* the write of deleteSubtree / saveRowImmediate / createNewTaskAtEnd resolved
afterModifyRow ==
    /\ pc # Idle /\ pc.at = "modifyRow" /\ pc.wrote
    /\ returned(store)
    /\ UNCHANGED <<fs, cache, nextObj, settings, op, events, timer, owed, unpurged, budget, save>>

\* the handler's mountTable, after its withSquelch
mountAfter ==
    /\ pc # Idle /\ pc.at = "mount"
    /\ Remount(pc.kind)
    /\ pc' = Idle
    /\ UNCHANGED <<fs, settings, events, timer, budget>>

\* the withSquelch sections the handler is inside at its await: the listener's
\* own, and relocateSubtree's around each of its two writes
sectionsOpen(h) ==
    IF h = Idle \/ h.at = "mount" THEN 0
    ELSE IF h.kind = "drop" /\ h.at \in {"modifySrc", "modifyDest"} THEN 2
    ELSE 1

\* the awaited vault.read or vault.modify rejects and has written nothing: every
\* withSquelch the handler is inside runs its finally clause and rethrows;
\* onRowDrop and the placeholder's drop listener catch the error and put up the
\* notice "Move failed.", delBtn.onclick and cb.onchange let it go; none mounts
vaultRejects ==
    /\ pc # Idle /\ pc.at # "mount" /\ ~pc.wrote
    /\ store' = squelchDown(store, sectionsOpen(pc))
    /\ op' = [kind |-> "failed", by |-> pc.kind, at |-> pc.at, before |-> pc.before,
              source |-> pc.source, dest |-> pc.dest, plan |-> pc.plan,
              notice |-> pc.kind \in {"drop", "end"}]
    /\ pc' = Idle
    /\ UNCHANGED <<fs, cache, nextObj, settings, events, timer, owed, unpurged, budget, save>>

\* A.md with a task and its child; with a task, a deeper child and a note
DocsAsync == {join(<<LineA, LineB>>), join(<<LineA, LineC, LineN>>)}

InitAsync == \E a \in DocsAsync : Mounted(a, LineA, <<Rule(<<>>, Paths)>>)

Modes == {"on", "before", "after"}

\* what another program leaves in the document it writes
EditedAsync == LineB \o <<"\n">> \o LineA

Steps ==
    \/ afterReadSrc
    \/ afterModifySrc
    \/ afterReadDest
    \/ afterModifyDest
    \/ afterReadRow
    \/ afterModifyRow
    \/ mountAfter
    \/ vaultRejects

NextAsync ==
    \/ \E id \in RowIds, t \in 1..Len(store.rowRefs), mode \in Modes : onRowDrop(id, t, mode)
    \/ \E id \in RowIds, p \in Paths : onPlaceholderDropBegin(id, p)
    \/ \E t \in 1..Len(store.rowRefs) : onDeleteClickBegin(t)
    \/ \E t \in 1..Len(store.rowRefs) : onCheckboxChange(t)
    \/ Steps
    \/ vaultModify
    \/ \E p \in Paths : ExternalEdit(p, EditedAsync)
    \/ \E e \in events : handler(e)
    \/ run

SpecAsync == InitAsync /\ [][NextAsync]_vars

-----------------------------------------------------------------------------
(* The debounced autosave (io/save): an input into a text cell arms a timer, *)
(* the timer runs saveEdits, which stops at each await like the user         *)
(* handlers and runs beside the one in flight.                               *)

MaxSaves == 1       \* inputs that arm the autosave in a behaviour

\* ref.checkbox.checked of row i: what addTaskRow set, flipped while the
\* checkbox listener of that row is in flight
checkboxChecked(rows, i) ==
    IF pc # Idle /\ pc.kind = "toggle" /\ pc.row = i /\ pc.rows = rows
    THEN ~rowChecked(rows[i].originalLine)
    ELSE rowChecked(rows[i].originalLine)

\* the line saveEdits builds for row i
rowLine(rows, i) ==
    buildLine(rows[i].originalLine, checkboxChecked(rows, i), trim(textContent(rows, i)))

\* byFile of saveEdits, flattened: one edit per row, in row order
editsOf(rows) ==
    [i \in 1..Len(rows) |-> [filePath |-> rows[i].filePath, lineIndex |-> rows[i].lineIndex,
                             newLine |-> rowLine(rows, i)]]

\* the keys of byFile in insertion order
RECURSIVE keysOf(_, _, _)
keysOf(edits, i, acc) ==
    IF i > Len(edits) THEN acc
    ELSE keysOf(edits, i + 1,
                IF \E k \in 1..Len(acc) : acc[k] = edits[i].filePath THEN acc
                ELSE Append(acc, edits[i].filePath))

\* the edits of one path applied to the lines read; of two edits of one line the
\* later row's stays (the sort by lineIndex is stable)
RECURSIVE applyEdits(_, _, _, _)
applyEdits(lines, edits, path, i) ==
    IF i > Len(edits) THEN lines
    ELSE applyEdits(IF edits[i].filePath = path /\ edits[i].lineIndex < Len(lines)
                    THEN [lines EXCEPT ![edits[i].lineIndex + 1] = edits[i].newLine]
                    ELSE lines,
                    edits, path, i + 1)

\* the loop of saveEdits skips a path the store has no entries of
RECURSIVE skipUnknown(_, _)
skipUnknown(todo, s) ==
    IF todo # <<>> /\ Head(todo) \notin DOMAIN s.tasksByFile THEN skipUnknown(Tail(todo), s)
    ELSE todo

Saving == save # Idle /\ save.at \in {"read", "modify"}

\* the input listener of a text cell: the text is typed, the autosave is armed
onInput(t) ==
    /\ save = Idle
    /\ budget.saves < MaxSaves
    /\ save' = [at |-> "armed", row |-> t, typed |-> TRUE]
    /\ budget' = [budget EXCEPT !.saves = @ + 1]
    /\ UNCHANGED <<fs, cache, nextObj, settings, store, op, events, timer, pc, owed, unpurged>>

\* after the loop of saveEdits: withSquelch is left and every row's line is
\* rebuilt from its checkbox and text cell
saveDone(s) ==
    /\ save' = Idle
    /\ store' = [squelchDown(s, 1) EXCEPT
                    !.rowRefs = [i \in 1..Len(@) |-> [@[i] EXCEPT !.originalLine = rowLine(s.rowRefs, i)]]]

\* saveEdits goes on with the paths left: the next read, or the end of the loop
saveLoop(todo, s) ==
    IF todo = <<>> THEN saveDone(s)
    ELSE /\ save' = [save EXCEPT !.at = "read", !.todo = todo, !.wrote = FALSE]
         /\ store' = s

\* the timer fires: saveEdits up to its first read, inside withSquelch
saveEdits ==
    /\ save # Idle /\ save.at = "armed"
    /\ IF store.rowRefs = <<>> \/ DOMAIN store.tasksByFile = {}
       THEN save' = Idle /\ store' = store
       ELSE \E edits \in {editsOf(store.rowRefs)} :
            \E todo \in {skipUnknown(keysOf(edits, 1, <<>>), store)} :
               IF todo = <<>> THEN saveDone(squelchUp(store, 1))
               ELSE /\ save' = [at |-> "read", row |-> save.row, typed |-> save.typed,
                                edits |-> edits, todo |-> todo, content |-> <<>>,
                                wrote |-> FALSE, seen |-> 0, stale |-> FALSE]
                    /\ store' = squelchUp(store, 1)
    /\ UNCHANGED <<fs, cache, nextObj, settings, op, events, timer, pc, owed, unpurged, budget>>

\* the read of the next path resolved: its lines with the edits applied
saveAfterRead ==
    /\ save # Idle /\ save.at = "read"
    /\ \E path \in {Head(save.todo)} :
          save' = [save EXCEPT !.at = "modify", !.seen = fs[path].mtime,
                               !.content = join(applyEdits(split(fs[path].content),
                                                           save.edits, path, 1))]
    /\ UNCHANGED <<fs, cache, nextObj, settings, store, op, events, timer, pc, owed, unpurged, budget>>

\* vault.modify of saveEdits at work, before its promise resolves
saveVaultModify ==
    /\ save # Idle /\ save.at = "modify" /\ ~save.wrote
    /\ \E path \in {Head(save.todo)} :
          /\ fs' = modify(fs, path, save.content)
          /\ events' = events \cup {[path |-> path, origin |-> "self",
                                      n |-> 2 * MaxOps + 2 + Len(save.todo)]}
          /\ save' = [save EXCEPT !.wrote = TRUE, !.stale = (fs[path].mtime # save.seen),
                                  !.seen = fs[path].mtime + 1]
    /\ UNCHANGED <<cache, nextObj, settings, store, op, timer, pc, owed, unpurged, budget>>

\* the write resolved: the next path of the loop
saveAfterModify ==
    /\ save # Idle /\ save.at = "modify" /\ save.wrote
    /\ saveLoop(skipUnknown(Tail(save.todo), store), store)
    /\ UNCHANGED <<fs, cache, nextObj, settings, op, events, timer, pc, owed, unpurged, budget>>

\* the awaited read or write of saveEdits rejects: withSquelch runs its finally
\* clause, the rows keep their lines, the timer callback's promise is rejected
saveRejects ==
    /\ Saving /\ ~save.wrote
    /\ save' = Idle
    /\ store' = squelchDown(store, 1)
    /\ UNCHANGED <<fs, cache, nextObj, settings, op, events, timer, pc, owed, unpurged, budget>>

\* A.md with a task and its child, B.md with a task, under one display
InitRace == Mounted(join(<<LineA, LineB>>), LineA, <<Rule(<<>>, Paths)>>)

SaveSteps ==
    \/ saveEdits
    \/ saveAfterRead
    \/ saveVaultModify
    \/ saveAfterModify
    \/ saveRejects

NextRace ==
    \/ \E id \in RowIds, t \in 1..Len(store.rowRefs), mode \in Modes : onRowDrop(id, t, mode)
    \/ \E id \in RowIds, p \in Paths : onPlaceholderDropBegin(id, p)
    \/ \E p \in Paths : onPlaceholderInput(p)
    \/ \E t \in 1..Len(store.rowRefs) : onDeleteClickBegin(t)
    \/ \E t \in 1..Len(store.rowRefs) : onCheckboxChange(t)
    \/ onInput(1)
    \/ Steps
    \/ vaultModify
    \/ SaveSteps
    \/ \E e \in events : handler(e)
    \/ run

SpecRace == InitRace /\ [][NextRace]_vars

-----------------------------------------------------------------------------
(* The rules of the settings tab and the grouping of a scan: the table is     *)
(* mounted over every bounded rule list, the tab adds and deletes rules, the  *)
(* view is refreshed.                                                         *)

MaxRules == 2       \* rules in store.settings.regexRules

\* a raw rule whose pattern new RegExp rejects
BadRule(name) == [name |-> name, re |-> [ok |-> FALSE, paths |-> {}]]

\* group names: none, two names, and one with a space after it
RuleNames == {<<>>, <<"G">>, <<"H">>, <<"G", " ">>}

\* raw rules: a pattern that matches both documents, A.md only, or nothing, and
\* one that does not compile
RawRules == {Rule(n, ps) : n \in RuleNames, ps \in {Paths, {"A.md"}, {}}}
                \cup {BadRule(n) : n \in RuleNames}

RuleLists == {<<>>} \cup SeqsUpTo(RawRules, MaxRules)

\* a document with tasks, one without a task line, an empty one
DocsRules == {join(<<LineA, LineB>>), LineN, <<>>}

InitRules == \E a \in DocsRules, b \in {LineA, LineN}, rules \in RuleLists : Mounted(a, b, rules)

\* addBtn.onclick of the settings tab: a rule with no name and the empty pattern,
\* which matches every path
onRuleAdd ==
    /\ Len(settings) < MaxRules
    /\ settings' = Append(settings, Rule(<<>>, Paths))
    /\ UNCHANGED <<fs, cache, nextObj, store, op, events, timer, pc, owed, unpurged, budget, save>>

\* delBtn.onclick of the settings tab: regexRules.splice(idx, 1)
onRuleDelete(idx) ==
    /\ settings' = spliceOut(settings, idx, 1)
    /\ UNCHANGED <<fs, cache, nextObj, store, op, events, timer, pc, owed, unpurged, budget, save>>

NextRules ==
    \/ onRuleAdd
    \/ \E idx \in 0..(Len(settings) - 1) : onRuleDelete(idx)
    \/ Refresh

SpecRules == InitRules /\ [][NextRules]_vars

-----------------------------------------------------------------------------
(* The line functions on the lines of the wire grammar: a document holding   *)
(* one task line is mounted, and the line is re-emitted by buildLine or its   *)
(* block depth-adjusted as relocateSubtree does.                              *)

MaxIndent == 4      \* characters of leading indentation
MaxDepth == 3       \* depths a block is adjusted to

\* <indent><bullet><space>[<space|x|X>]<space><payload>
Indents == {<<>>} \cup SeqsUpTo({" ", "\t"}, MaxIndent)
WireLines == {indent \o <<bullet, " ", "[", box, "]", " ", "p">> :
                 indent \in Indents, bullet \in {"-", "*"}, box \in {" ", "x", "X"}}

\* a task line of a document with Windows line ends: split("\n") leaves the
\* carriage return at the end of the line
LineR  == task(<<"\t", "\t">>, "-", "x", <<"b", "\r">>)    \* "\t\t- [x] b\r"

\* what follows the task line in the document: nothing, a task line of depth 3,
\* or one that ends with a carriage return and a newline
Children == {<<>>, <<LineC>>, <<LineR, <<>>>>}

InitText ==
    \E line \in WireLines, child \in Children :
        Mounted(join(<<line>> \o child), LineA, <<Rule(<<>>, Paths)>>)

\* the row of A.md's first task line re-emitted as saveEdits does for a row
\* nobody has touched: buildLine with the checkbox state and the text addTaskRow
\* took from the line
reemit ==
    /\ op = NoOp
    /\ \E line \in {store.rowRefs[1].originalLine} :
          op' = [kind |-> "buildLine", line |-> line, checked |-> rowChecked(line),
                 text |-> rowText(line),
                 out |-> buildLine(line, rowChecked(line), rowText(line))]
    /\ UNCHANGED <<fs, cache, nextObj, settings, store, events, timer, pc, owed, unpurged,
                   budget, save>>

\* the block of A.md's first task line depth-adjusted to newDepth as
\* relocateSubtree does
adjust(newDepth) ==
    /\ op = NoOp
    /\ \E lines \in {split(fs["A.md"].content)} :
       \E srcDepth \in {getIndentDepth(lines[1])} :
       \E block \in {slice(lines, 0, blockEnd(lines, 0, srcDepth) + 1)} :
          op' = [kind |-> "adjust", block |-> block, srcDepth |-> srcDepth,
                 newDepth |-> newDepth, out |-> adjustBlock(block, newDepth, srcDepth)]
    /\ UNCHANGED <<fs, cache, nextObj, settings, store, events, timer, pc, owed, unpurged,
                   budget, save>>

NextText ==
    \/ reemit
    \/ \E newDepth \in 1..MaxDepth : adjust(newDepth)

SpecText == InitText /\ [][NextText]_vars

-----------------------------------------------------------------------------
(* Rows gone stale: another program rewrites a document and the user acts on  *)
(* the table before the debounced re-scan has run, so that a row's line index *)
(* no longer denotes the line the row was made from. The rewrite comes before *)
(* the user's action; the documents after the action are those it wrote.      *)

\* what another program leaves in a document: nothing; a note line and a task
\* line indented under it; a task line alone
StaleDocs == {<<>>, join(<<LineN, LineB>>), LineB}

\* the documents at mount; the third has a line that ends with a carriage return
\* between lines that do not (a note edited on two systems)
DocsStale == DocsAsync \cup {join(<<LineA, LineR, LineC>>)}

InitStale == \E a \in DocsStale : Mounted(a, LineA, <<Rule(<<>>, Paths)>>)

\* saveRowImmediate run to completion: the documents it leaves
saveRowImmediate(files, row, checked, text) ==
    LET lines   == split(files[row.filePath].content)
        newLine == buildLine(row.originalLine, checked, trim(text))
    IN IF row.lineIndex >= Len(lines) THEN files
       ELSE IF lines[row.lineIndex + 1] = newLine THEN files
       ELSE modify(files, row.filePath, join([lines EXCEPT ![row.lineIndex + 1] = newLine]))

\* cb.onchange run to completion: the checkbox shows the opposite of the row's
\* line, saveRowImmediate writes it, the row keeps the line built
Toggle(t) ==
    /\ op = NoOp
    /\ \E row \in {store.rowRefs[t]} :
       \E text \in {textContent(store.rowRefs, t)} :
          /\ fs' = saveRowImmediate(fs, row, ~rowChecked(row.originalLine), text)
          /\ store' = [store EXCEPT !.rowRefs[t].originalLine =
                           buildLine(row.originalLine, ~rowChecked(row.originalLine), text)]
          /\ op' = [kind |-> "toggle", rows |-> <<row>>, before |-> fs]
    /\ UNCHANGED <<cache, nextObj, settings, events, timer, pc, owed, unpurged, budget, save>>

\* the loop of saveEdits over the paths of byFile the store has entries of
RECURSIVE saveAll(_, _, _)
saveAll(files, edits, todo) ==
    IF todo = <<>> THEN files
    ELSE saveAll(IF Head(todo) \in DOMAIN store.tasksByFile
                 THEN modify(files, Head(todo),
                             join(applyEdits(split(files[Head(todo)].content), edits,
                                             Head(todo), 1)))
                 ELSE files,
                 edits, Tail(todo))

\* the autosave timer fires and saveEdits runs to completion
saveEditsAtOnce ==
    /\ op = NoOp
    /\ save # Idle /\ save.at = "armed"
    /\ store.rowRefs # <<>> /\ DOMAIN store.tasksByFile # {}
    /\ \E edits \in {editsOf(store.rowRefs)} :
          /\ fs' = saveAll(fs, edits, keysOf(edits, 1, <<>>))
          /\ store' = [store EXCEPT
                          !.rowRefs = [i \in 1..Len(@) |-> [@[i] EXCEPT !.originalLine = edits[i].newLine]]]
          /\ op' = [kind |-> "save", rows |-> store.rowRefs, before |-> fs]
    /\ save' = Idle
    /\ UNCHANGED <<cache, nextObj, settings, events, timer, pc, owed, unpurged, budget>>

NextStale ==
    \/ \E p \in Paths, doc \in StaleDocs : op = NoOp /\ ExternalEdit(p, doc)
    \/ \E e \in events : handler(e)
    \/ run
    \/ \E id \in RowIds, t \in 1..Len(store.rowRefs) : DropOn(id, t)
    \/ \E id \in RowIds, t \in 1..Len(store.rowRefs), after \in BOOLEAN : DropBetween(id, t, after)
    \/ \E id \in RowIds, p \in Paths : DropAtEnd(id, p)
    \/ \E t \in 1..Len(store.rowRefs) : Delete(t)
    \/ \E t \in 1..Len(store.rowRefs) : Toggle(t)
    \/ \E t \in 1..Len(store.rowRefs) : onInput(t)
    \/ saveEditsAtOnce

SpecStale == InitStale /\ [][NextStale]_vars

-----------------------------------------------------------------------------
(* getCachedFileParse in its steps, under concurrent scans and writes. The    *)
(* timestamp is taken and the cache looked up before vault.read is awaited;   *)
(* the parse and TASK_PARSE_CACHE.set run when the read has resolved. Here pc *)
(* holds the position of each scan in flight.                                 *)

MaxLookups == 3     \* calls of getCachedFileParse in a behaviour
MaxWrites == 2      \* writes of documents in a behaviour

\* the scans that can be in flight together (a refresh during an autoscan)
Scans == {1, 2}

\* what a write leaves in a document
CacheDocs == {<<>>, LineA, join(<<LineA, LineB>>)}

InitCache ==
    \E m \in {mountTable(EmptyMap, [p \in Paths |-> [content |-> LineA, mtime |-> 1]],
                          <<Rule(<<>>, Paths)>>, 0, 1)} :
        /\ fs = [p \in Paths |-> [content |-> LineA, mtime |-> 1]]
        /\ settings = <<Rule(<<>>, Paths)>>
        /\ cache = m.cache
        /\ nextObj = m.nextObj
        /\ store = m.store
        /\ op = NoOp
        /\ events = {}
        /\ timer = FALSE
        /\ pc = [s \in Scans |-> Idle]
        /\ owed = [p \in Paths |-> 0]
        /\ unpurged = {}
        /\ budget = [edits |-> 0, scans |-> 0, ops |-> 0, saves |-> 0]
        /\ save = Idle

\* a write under a fault of the cache: the entry is stored under the timestamp
\* the document has when the entry is set
stampAtSet(captured, now) == now

\* the timestamp an entry is stored under: const mtime, taken before the await
stampOf(captured, now) == captured

\* the plugin or another program writes a document: content and timestamp
\* change, the vault will notify the listener
vaultWrite(p, doc, origin) ==
    /\ budget.edits < MaxWrites
    /\ doc # fs[p].content
    /\ fs' = modify(fs, p, doc)
    /\ events' = events \cup {[path |-> p, origin |-> origin, n |-> budget.edits]}
    /\ budget' = [budget EXCEPT !.edits = @ + 1]
    /\ UNCHANGED <<cache, nextObj, settings, store, op, timer, pc, owed, unpurged, save>>

\* getCachedFileParse up to its await: a hit returns the cached entries, a miss
\* calls vault.read
lookup(s, p) ==
    /\ pc[s] = Idle
    /\ budget.scans < MaxLookups
    /\ budget' = [budget EXCEPT !.scans = @ + 1]
    /\ IF cacheHit(cache, p, fs[p].mtime)
       THEN /\ op' = [kind |-> "hit", scan |-> s, path |-> p, mtime |-> fs[p].mtime,
                      entries |-> cache[p].entries, childrenById |-> cache[p].childrenById,
                      before |-> fs]
            /\ pc' = pc
       ELSE /\ pc' = [pc EXCEPT ![s] = [at |-> "read", path |-> p, mtime |-> fs[p].mtime]]
            /\ op' = op
    /\ UNCHANGED <<fs, cache, nextObj, settings, store, events, timer, owed, unpurged, save>>

\* vault.read resolves with the content the document has now
readResolves(s) ==
    /\ pc[s].at = "read"
    /\ pc' = [pc EXCEPT ![s] = [at |-> "parse", path |-> pc[s].path, mtime |-> pc[s].mtime,
                                content |-> fs[pc[s].path].content]]
    /\ UNCHANGED <<fs, cache, nextObj, settings, store, op, events, timer, owed, unpurged,
                   budget, save>>

\* getCachedFileParse after its await: the three loops and TASK_PARSE_CACHE.set
parseAndSet(s) ==
    /\ pc[s].at = "parse"
    /\ \E parse \in {parseFile(pc[s].path, pc[s].content)} :
       \E stamp \in {stampOf(pc[s].mtime, fs[pc[s].path].mtime)} :
          /\ cache' = [q \in DOMAIN cache \cup {pc[s].path} |->
                          IF q = pc[s].path
                          THEN [mtime |-> stamp, obj |-> nextObj, entries |-> parse.entries,
                                childrenById |-> parse.childrenById]
                          ELSE cache[q]]
          /\ op' = [kind |-> "miss", scan |-> s, path |-> pc[s].path, mtime |-> pc[s].mtime,
                    content |-> pc[s].content, entries |-> parse.entries,
                    childrenById |-> parse.childrenById, before |-> fs]
    /\ nextObj' = nextObj + 1
    /\ pc' = [pc EXCEPT ![s] = Idle]
    /\ UNCHANGED <<fs, settings, store, events, timer, owed, unpurged, budget, save>>

NextCache ==
    \/ \E p \in Paths, doc \in CacheDocs, origin \in {"external", "plugin"} :
          vaultWrite(p, doc, origin)
    \/ \E e \in events : handler(e)
    \/ \E s \in Scans, p \in Paths : lookup(s, p)
    \/ \E s \in Scans : readResolves(s)
    \/ \E s \in Scans : parseAndSet(s)

SpecCache == InitCache /\ [][NextCache]_vars

-----------------------------------------------------------------------------
(* Vocabulary of the properties: the documents before and after the last   *)
(* operation, and the source block as the specification describes it.      *)

Moved == op.kind \in {"child", "between", "end"}

PreLines(p)  == split(op.before[p].content)
PostLines(p) == split(fs[p].content)

OtherPath(p) == IF p = "A.md" THEN "B.md" ELSE "A.md"

SrcPath == op.source.filePath
Start   == op.source.lineIndex

\* a line without its leading whitespace: bullet, checkbox and payload
Body(ln) == SubSeq(ln, leadLen(ln) + 1, Len(ln))

TaskCount(lines) == Cardinality({i \in 1..Len(lines) : TASK_RX(lines[i])})

\* i (0-based) is a task line of lines deeper than depth d
Deeper(lines, i, d) == TASK_RX(lines[i + 1]) /\ getIndentDepth(lines[i + 1]) > d

\* the last index of the block of the task at start: the largest e such that
\* every line in (start, e] is a task line deeper than the line at start
BlockEndOf(lines, start) ==
    LET d == getIndentDepth(lines[start + 1])
    IN CHOOSE e \in start..(Len(lines) - 1) :
          /\ \A i \in (start + 1)..e : Deeper(lines, i, d)
          /\ (e = Len(lines) - 1 \/ ~Deeper(lines, e + 1, d))

SrcEnd   == BlockEndOf(PreLines(SrcPath), Start)
BlockLen == SrcEnd - Start + 1

\* lines with the 0-based range [from, to] cut out
Without(lines, from, to) == SubSeq(lines, 1, from) \o SubSeq(lines, to + 2, Len(lines))

\* the source row is the task line the source document holds at its index
SourceFresh ==
    /\ Start < Len(PreLines(SrcPath))
    /\ PreLines(SrcPath)[Start + 1] = op.source.originalLine
    /\ TASK_RX(op.source.originalLine)

\* the destination document's content once the block has left the source
DestBase == IF op.dest = SrcPath THEN join(Without(PreLines(SrcPath), Start, SrcEnd))
            ELSE op.before[op.dest].content

\* the block of the source in the source document before the operation
SrcBlock == SubSeq(PreLines(SrcPath), Start + 1, SrcEnd + 1)

\* post is the document base with the lines of block inserted at one place,
\* each with its bullet, checkbox and payload as in block
InsertedInto(base, post, block) ==
    \E j \in 0..(Len(post) - Len(block)) :
        /\ join(Without(post, j, j + Len(block) - 1)) = base
        /\ \A k \in 1..Len(block) : Body(post[j + k]) = Body(block[k])

EndsOpen(content) == LET lines == split(content) IN lines[Len(lines)] # <<>>

-----------------------------------------------------------------------------
\* C2: deleteSubtree on a task line removes exactly the block [start, end] of
\* that line and its deeper-indented task lines, with a single write to that
\* document, and leaves every other line (and the other document) as it was.
C2_DeleteRemovesBlock ==
    (op.kind = "delete" /\ SourceFresh) =>
        /\ fs[SrcPath].content = join(Without(PreLines(SrcPath), Start, SrcEnd))
        /\ op.writes[SrcPath] = 1
        /\ op.writes[OtherPath(SrcPath)] = 0
        /\ fs[OtherPath(SrcPath)] = op.before[OtherPath(SrcPath)]

\* witness of C2: a block of two lines deleted from between other lines
C2_Witness ==
    /\ op.kind = "delete" /\ SourceFresh
    /\ BlockLen = 2 /\ Start > 0 /\ SrcEnd + 1 < Len(PreLines(SrcPath))

\* the parent (or anchor) row lies inside the block of the source
TargetInBlock ==
    /\ op.target.filePath = SrcPath
    /\ Start <= op.target.lineIndex /\ op.target.lineIndex <= SrcEnd

\* the 0-based index, after the move, of a destination line that was at index i
\* before it and is outside the moved block and above the insertion point
IndexAfterRemoval(i) ==
    IF op.dest = SrcPath /\ i > SrcEnd THEN i - BlockLen ELSE i

\* C3: after moveAsTopChild(source, parent) with the parent outside the block
\* of the source, the moved node is the line right after the parent's line in
\* the parent's document, at depth parent.depth + 1.
C3_FirstChild ==
    (op.kind = "child" /\ SourceFresh /\ ~TargetInBlock) =>
        LET post == PostLines(op.target.filePath)
            j    == IndexAfterRemoval(op.target.lineIndex)
        IN /\ Len(post) >= j + 2
           /\ post[j + 1] = op.target.originalLine
           /\ TASK_RX(post[j + 2])
           /\ Body(post[j + 2]) = Body(op.source.originalLine)
           /\ getIndentDepth(post[j + 2]) = op.target.depth + 1

\* witness of C3: a block of two lines moved down the same document under a
\* parent below it, to another depth
C3_Witness ==
    /\ op.kind = "child" /\ SourceFresh /\ ~TargetInBlock
    /\ op.target.filePath = SrcPath /\ op.target.lineIndex > SrcEnd
    /\ BlockLen = 2 /\ op.source.depth # op.target.depth + 1

\* the destination as moveSubtreeToFileEnd finds it, and the index of its
\* trailing empty line (its length when it has none)
EndBase == split(DestBase)
EndAt   == IF EndBase[Len(EndBase)] = <<>> THEN Len(EndBase) - 1 ELSE Len(EndBase)

\* post is base with the block inserted at 0-based index at, the moved node at
\* depth d, and after it the lines tail
AppendedAt(base, post, at, d, tail) ==
    /\ Len(post) = at + BlockLen + Len(tail)
    /\ SubSeq(post, 1, at) = SubSeq(base, 1, at)
    /\ \A k \in 1..BlockLen : TASK_RX(post[at + k]) /\ Body(post[at + k]) = Body(SrcBlock[k])
    /\ getIndentDepth(post[at + 1]) = d
    /\ SubSeq(post, at + BlockLen + 1, Len(post)) = tail

\* C5 (as stated): moveSubtreeToFileEnd inserts the block at the end of the
\* destination, before its trailing empty line if it has one, the moved node at
\* the depth the caller gave; the destination gains the block's lines and nothing
\* else, whether or not it ended with an empty line.
C5_AppendGainsOnlyBlock ==
    (op.kind = "end" /\ SourceFresh) =>
        AppendedAt(EndBase, PostLines(op.dest), EndAt, op.newDepth,
                   SubSeq(EndBase, EndAt + 1, Len(EndBase)))

\* C5 (amended): moveSubtreeToFileEnd inserts the block at the end of the
\* destination, before its trailing empty line if it has one, the moved node at
\* the depth the caller gave; a destination that ends with an empty line gains
\* the block's lines and nothing else (so repeated appends add no blank line),
\* and a destination that does not gains the block's lines and one final
\* newline, that is one empty last line.
C5_AppendEndsWithNewline ==
    (op.kind = "end" /\ SourceFresh) =>
        AppendedAt(EndBase, PostLines(op.dest), EndAt, op.newDepth, <<<<>>>>)

\* witness of C5: a block of two lines, the moved node deeper than the depth
\* asked for, appended to a document that ends with an empty line
C5_Witness ==
    /\ op.kind = "end" /\ SourceFresh
    /\ BlockLen = 2 /\ op.source.depth > op.newDepth
    /\ EndAt < Len(EndBase) /\ EndAt > 0

-----------------------------------------------------------------------------
\* the depth of the node (task line) nearest above (below) 0-based index i of
\* lines, 0 when there is none; the line at i itself counts as below
DepthAbove(lines, i) ==
    LET c == {k \in 0..(i - 1) : k < Len(lines) /\ TASK_RX(lines[k + 1])}
    IN IF c = {} THEN 0 ELSE getIndentDepth(lines[(CHOOSE k \in c : \A m \in c : m <= k) + 1])
DepthBelow(lines, i) ==
    LET c == {k \in i..(Len(lines) - 1) : TASK_RX(lines[k + 1])}
    IN IF c = {} THEN 0 ELSE getIndentDepth(lines[(CHOOSE k \in c : \A m \in c : k <= m) + 1])

\* the insertion point moveBetweenWithMaxNeighborDepth is given: the anchor's
\* line index, plus one when after is true
AnchorAt == IF op.after THEN op.target.lineIndex + 1 ELSE op.target.lineIndex

\* the 0-based index, after the move, of the line that index AnchorAt of the
\* anchor's document denoted before it (the block has left the lines above it)
MovedAt == AnchorAt - (IF op.dest = SrcPath /\ Start < AnchorAt THEN BlockLen ELSE 0)

\* the document is shown under more than one group: its rows occur repeatedly
ShownTwice(p) ==
    \E i, j \in 1..Len(op.rows) :
        i # j /\ op.rows[i].id = op.rows[j].id /\ op.rows[i].filePath = p

\* C4 (as stated): after moveBetweenWithMaxNeighborDepth(source, anchor, after)
\* the moved node's depth is the greatest of 1, the depth of the node right above
\* the insertion point and the depth of the node right below it, in the anchor's
\* document, and the moved node is inserted at the anchor's line index (plus one
\* when after is true).
C4_DepthIsMaxOfNeighbours ==
    (op.kind = "between" /\ SourceFresh /\ ~TargetInBlock) =>
        LET pre  == PreLines(op.dest)
            post == PostLines(op.dest)
        IN /\ op.newDepth = Max2(Max2(DepthAbove(pre, AnchorAt), DepthBelow(pre, AnchorAt)), 1)
           /\ MovedAt + 1 <= Len(post)
           /\ Body(post[MovedAt + 1]) = Body(op.source.originalLine)
           /\ getIndentDepth(post[MovedAt + 1]) = op.newDepth

\* C4, the part the code keeps in every display mode: the moved node sits at the
\* anchor, right before the anchor's line or right after it when after is true,
\* at the depth moveBetweenWithMaxNeighborDepth computed
C4_InsertedAtAnchor ==
    (op.kind = "between" /\ SourceFresh /\ ~TargetInBlock) =>
        LET post == PostLines(op.dest)
            a    == IF op.after THEN MovedAt - 1 ELSE MovedAt + BlockLen
        IN /\ MovedAt + 1 <= Len(post)
           /\ Body(post[MovedAt + 1]) = Body(op.source.originalLine)
           /\ getIndentDepth(post[MovedAt + 1]) = op.newDepth
           /\ 0 <= a /\ a < Len(post)
           /\ post[a + 1] = op.target.originalLine

\* C4, the depth rule where every document is shown once: the depth is the
\* greatest of 1 and the depths of the nodes around the insertion point
C4_DepthInSingleDisplay ==
    (op.kind = "between" /\ SourceFresh /\ ~TargetInBlock /\ ~ShownTwice(op.dest)) =>
        op.newDepth = Max2(Max2(DepthAbove(PreLines(op.dest), AnchorAt),
                                DepthBelow(PreLines(op.dest), AnchorAt)), 1)

\* C4, the consequence drawn from the depth rule: the moved node is not
\* shallower than the node above it nor than the node below its block in the
\* document after the move
C4_NotShallowerThanNewNeighbours ==
    (op.kind = "between" /\ SourceFresh /\ ~TargetInBlock) =>
        LET post == PostLines(op.dest)
        IN /\ DepthAbove(post, MovedAt) <= op.newDepth
           /\ DepthBelow(post, MovedAt + BlockLen) <= op.newDepth

-----------------------------------------------------------------------------
\* the entries the last scan gave for document p (none when it has no task)
Entries(p) == IF p \in DOMAIN store.tasksByFile THEN store.tasksByFile[p].entries ELSE <<>>

\* the entries before entry k that are strictly shallower than it
ShallowerBefore(es, k) == {j \in 1..(k - 1) : es[j].depth < es[k].depth}

\* C6: in every scanned document the parent of a node is the nearest preceding
\* node strictly shallower than it, whatever the jump in depth, and a node has no
\* parent exactly when no preceding node is strictly shallower; a parent thus
\* comes earlier and is shallower, and parentage has no cycle.
C6_ParentIsNearestShallower ==
    \A p \in Paths : \A k \in 1..Len(Entries(p)) :
        LET es == Entries(p)
            sh == ShallowerBefore(es, k)
        IN IF sh = {} THEN es[k].parentId = NoId
           ELSE es[k].parentId = es[CHOOSE j \in sh : \A i \in sh : i <= j].id

\* witness of C6: a node two levels deeper than its parent, and after it a node
\* without a parent that deeper nodes precede
C6_Witness ==
    /\ op.kind = "mount"
    /\ \E k \in 2..Len(Entries("A.md")) :
          LET es == Entries("A.md")
          IN /\ k < Len(es)
             /\ es[k].depth = 3 /\ es[k].parentId = es[k - 1].id /\ es[k - 1].depth = 1
             /\ es[k + 1].parentId = NoId

\* the ids of the task lines of content, in line order
TaskIds(p, content) ==
    LET lines == split(content)
        idx   == SelectSeq([i \in 1..Len(lines) |-> i - 1], LAMBDA i : TASK_RX(lines[i + 1]))
    IN [k \in 1..Len(idx) |-> <<p, idx[k]>>]

\* the depth-first walk from the nodes ids: each node, then its children in the
\* order of the children index, at most fuel levels deep
RECURSIVE Walk(_, _, _)
Walk(ids, children, fuel) ==
    IF ids = <<>> \/ fuel = 0 THEN <<>>
    ELSE <<Head(ids)>>
         \o Walk(IF Head(ids) \in DOMAIN children THEN children[Head(ids)] ELSE <<>>,
                 children, fuel - 1)
         \o Walk(Tail(ids), children, fuel)

\* the parentless nodes of p in line order
Roots(p) ==
    LET es    == Entries(p)
        roots == SelectSeq(es, LAMBDA e : e.parentId = NoId)
    IN [k \in 1..Len(roots) |-> roots[k].id]

\* C7: the depth-first walk of the scan result of a document (the parentless
\* nodes in line order, under each node its children in the order of the
\* children index) visits the task lines of the document, each once, in
\* line order.
C7_WalkIsLineOrder ==
    op.kind = "mount" =>
        \A p \in Paths :
            Walk(Roots(p), store.childrenById, Len(Entries(p)) + 1)
                = TaskIds(p, op.before[p].content)

\* witness of C7: a scan of four nodes, two of them parentless, one with two
\* children
C7_Witness ==
    /\ op.kind = "mount"
    /\ Len(Entries("A.md")) = 4
    /\ Len(Roots("A.md")) = 2
    /\ \E id \in DOMAIN store.childrenById : Len(store.childrenById[id]) = 2

\* the scan of p found a cache entry made at the document's timestamp
HitExpected(p) ==
    /\ p \in DOMAIN op.cacheBefore
    /\ op.cacheBefore[p].mtime = op.before[p].mtime

\* entries are the task lines of content, in line order, each with its index,
\* its text and its depth
Rescanned(entries, p, content) ==
    LET lines == split(content)
    IN /\ [k \in 1..Len(entries) |-> entries[k].id] = TaskIds(p, content)
       /\ \A k \in 1..Len(entries) :
             /\ entries[k].id = <<p, entries[k].lineIndex>>
             /\ entries[k].originalLine = lines[entries[k].lineIndex + 1]
             /\ entries[k].depth = getIndentDepth(lines[entries[k].lineIndex + 1])

\* C8: a scan that finds a cache entry of the document's modification timestamp
\* returns the memoized entries and children index, the very objects of the
\* scan before, and does not read the document; with another timestamp or no
\* entry it reads the document, scans it anew and stores the result under the
\* document's timestamp.
C8_HitOrRescan ==
    op.kind = "mount" =>
        \A p \in Paths :
            IF HitExpected(p)
            THEN /\ p \notin op.reads
                 /\ op.cacheAfter[p] = op.cacheBefore[p]
                 /\ p \in DOMAIN store.tasksByFile =>
                       /\ store.tasksByFile[p].obj = op.cacheBefore[p].obj
                       /\ store.tasksByFile[p].entries = op.cacheBefore[p].entries
                 /\ \A id \in DOMAIN op.cacheBefore[p].childrenById :
                       store.childrenById[id] = op.cacheBefore[p].childrenById[id]
            ELSE /\ p \in op.reads
                 /\ op.cacheAfter[p].mtime = op.before[p].mtime
                 /\ op.cacheAfter[p].obj >= op.objBefore
                 /\ Rescanned(op.cacheAfter[p].entries, p, op.before[p].content)
                 /\ p \in DOMAIN store.tasksByFile =>
                       store.tasksByFile[p].obj = op.cacheAfter[p].obj

\* witness of C8: one scan that takes a hit for a document left as it was and
\* reads another whose cache entry is of an older timestamp
C8_Witness ==
    /\ op.kind = "mount"
    /\ \E p, q \in Paths :
          /\ HitExpected(p) /\ p \in DOMAIN store.tasksByFile
          /\ q \in DOMAIN op.cacheBefore /\ op.cacheBefore[q].mtime < op.before[q].mtime
          /\ q \in op.reads

\* C9: after every write of a move or delete the cache entry of the written path
\* is invalidated before the next scan looks the path up: no scan finds the
\* entry of a path that a move or delete has written since the scan before.
C9_InvalidatedBeforeScan == op.kind = "mount" => op.stale = {}

\* the event loop has run all that was pending: every notification has reached
\* the listener, the debounced trigger is not armed, no handler is in flight.
\* From here nothing happens until the user acts or another program writes.
NothingPending == events = {} /\ ~timer /\ pc = Idle

\* C10: every notification of an external edit is eventually followed by an
\* invalidation of its path and a re-scan, whatever handler was in flight when
\* it arrived: once the event loop has nothing pending any more, no path is
\* still owed the re-scan of an external edit the listener was notified of.
C10_ExternalEditRescanned == NothingPending => \A p \in Paths : owed[p] = 0

\* the withSquelch sections in progress: those of the user handler in flight
\* and the one of saveEdits beside it
sectionsInProgress == sectionsOpen(pc) + (IF Saving THEN 1 ELSE 0)

\* C11: squelchScanDepth is never negative and equals the number of withSquelch
\* sections in progress (entered and not yet left, by return or by rejection),
\* nested ones and overlapping ones counted; with none in progress it is 0.
C11_SquelchCountsSections ==
    /\ store.squelchScanDepth >= 0
    /\ store.squelchScanDepth = sectionsInProgress
    /\ (pc = Idle /\ ~Saving) => store.squelchScanDepth = 0

\* witness of C11: the destination write of a drop rejected inside the nested
\* sections of onRowDrop and relocateSubtree while saveEdits is inside its own
C11_Witness ==
    /\ op.kind = "failed" /\ op.by = "drop" /\ op.at = "modifyDest"
    /\ pc = Idle /\ Saving
    /\ store.squelchScanDepth = 1

\* a notification is delivered to the listener in this step
Delivered == events' # events /\ events' \subseteq events

\* C12: a notification delivered to the autoscan listener while squelchScanDepth
\* is above 0 schedules no re-scan: the step arms no debounced run and
\* invalidates nothing, whichever write (of a move, a delete, saveEdits,
\* saveRowImmediate, createNewTaskAtEnd) the notification is of.
C12_SquelchedDeliverySchedulesNothing ==
    [][(Delivered /\ store.squelchScanDepth > 0) => (timer' = timer /\ cache' = cache)]_vars

\* witness of C12: the notification of a handler's write has reached the listener
\* while the handler still awaits that write inside withSquelch, and no run is armed
C12_Witness ==
    /\ Modifying /\ pc.wrote
    /\ store.squelchScanDepth > 0
    /\ events = {} /\ ~timer

\* C13: no two operations in flight interleave their read-modify-write sequences
\* on one document: no operation writes a document from content it read before
\* another operation's write to that document.
C13_NoWriteFromStaleRead ==
    /\ pc # Idle => ~pc.stale
    /\ Saving => ~save.stale

\* the indices of the raw rules whose pattern compiles, and the k-th of them
CompilingRules == {i \in 1..Len(settings) : settings[i].re.ok}
NthCompiling(k) ==
    CHOOSE i \in CompilingRules : Cardinality({j \in CompilingRules : j < i}) = k - 1

\* C14: compileRules returns exactly the rules whose pattern compiles, in their
\* original order and with their names; a rule whose pattern does not compile
\* is dropped and changes nothing of the others.
C14_CompiledAreTheCompilingRules ==
    \E compiled \in {compileRules(settings)} :
        /\ Len(compiled) = Cardinality(CompilingRules)
        /\ \A k \in 1..Len(compiled) :
              /\ compiled[k].name = settings[NthCompiling(k)].name
              /\ compiled[k].re = settings[NthCompiling(k)].re.paths

\* witness of C14: a rule that does not compile stands before one that does, and
\* the table mounted with these rules shows the document the second one matches
C14_Witness ==
    /\ op.kind = "mount" /\ op.rules = settings
    /\ Len(settings) = 2 /\ ~settings[1].re.ok /\ settings[2].re.ok
    /\ Len(op.groups) = 1 /\ Len(op.groups[1].files) = 2

\* the rules compiled by the last mount; whether one of them matches a path
MountRules == compileRules(op.rules)
Matched(p) == \E k \in 1..Len(MountRules) : p \in MountRules[k].re

\* whether a rule of the last mount with group name g matches a path
MatchedUnder(g, p) ==
    \E k \in 1..Len(MountRules) : trim(MountRules[k].name) = g /\ p \in MountRules[k].re

\* how often a path occurs among the files of a group bucket
Occurrences(group, p) ==
    Cardinality({k \in 1..Len(group.files) : group.files[k].filePath = p})

\* whether the document held a task line when the last mount scanned it
HeldTasks(p) ==
    \E lines \in {split(op.before[p].content)} : \E i \in 1..Len(lines) : TASK_RX(lines[i])

\* C15: when every compiled rule has an empty group name (and there is a compiled
\* rule), scanTasks returns a single pseudo-group in which every candidate
\* document matched by at least one rule appears exactly once and no document
\* matched by zero rules appears.
C15_FlatShowsEveryMatched ==
    (/\ op.kind = "mount"
     /\ MountRules # <<>>
     /\ \A k \in 1..Len(MountRules) : MountRules[k].name = <<>>) =>
        /\ Len(op.groups) = 1
        /\ \A p \in Paths : Occurrences(op.groups[1], p) = (IF Matched(p) THEN 1 ELSE 0)

\* the group names of the last mount: the names of its rules without the
\* whitespace around them, the empty one left out
MountGroupNames == {trim(MountRules[k].name) : k \in 1..Len(MountRules)} \ {<<>>}

\* the group buckets of the last mount named g
BucketsNamed(g) == {k \in 1..Len(op.groups) : op.groups[k].name = g}

\* the file buckets of a path in the group bucket named g
FileBuckets(g, p) ==
    UNION {{op.groups[k].files[j] : j \in {i \in 1..Len(op.groups[k].files) :
                                                 op.groups[k].files[i].filePath = p}} :
           k \in BucketsNamed(g)}

\* C16: in grouped mode a document appears exactly once in the group named g if
\* at least one compiled rule named g matches its path, however many do, and
\* not in g otherwise; under two groups it has the same parsed node list.
C16_GroupedShowsEveryMatched ==
    (op.kind = "mount" /\ MountGroupNames # {}) =>
        /\ \A g \in MountGroupNames, p \in Paths :
              IF MatchedUnder(g, p)
              THEN /\ Cardinality(BucketsNamed(g)) = 1
                   /\ \A k \in BucketsNamed(g) : Occurrences(op.groups[k], p) = 1
              ELSE \A k \in BucketsNamed(g) : Occurrences(op.groups[k], p) = 0
        /\ \A g, h \in MountGroupNames :
              \A a \in FileBuckets(g, "A.md"), b \in FileBuckets(h, "A.md") :
                  a.items = b.items

\* C17: depth-adjusting a block with depth delta 0 returns every line of the
\* block byte-identical to its input, whatever tabs and spaces indent it.
C17_DeltaZeroIsIdentity ==
    (op.kind = "adjust" /\ op.newDepth = op.srcDepth) => op.out = op.block

\* C18: a task line of the wire grammar parsed into checked state and text and
\* re-emitted by buildLine with both unchanged is byte-identical to the line,
\* for both bullets, the three checkbox forms and every indentation.
C18_BuildLineRoundTrip == op.kind = "buildLine" => op.out = op.line

\* ln is indented for depth d by two spaces per level and nothing else
Canonical(ln, d) == leadLen(ln) = 2 * (d - 1) /\ \A i \in 1..leadLen(ln) : ln[i] = " "

\* C19: every task line whose depth the Relocation Engine rewrites is emitted
\* with exactly two spaces per level: the lines of the moved block stand in the
\* destination with 2 * (depth - 1) leading spaces, depth being the line's
\* depth shifted as the moved node's.
C19_TwoSpacesPerLevel ==
    (Moved /\ SourceFresh) =>
        LET extra == IF op.kind = "end" /\ EndsOpen(DestBase) THEN 1 ELSE 0
            post  == SubSeq(PostLines(op.dest), 1, Len(PostLines(op.dest)) - extra)
            delta == op.newDepth - getIndentDepth(SrcBlock[1])
        IN \E j \in 0..(Len(post) - BlockLen) :
              /\ join(Without(post, j, j + BlockLen - 1)) = DestBase
              /\ \A k \in 1..BlockLen :
                    /\ Body(post[j + k]) = Body(SrcBlock[k])
                    /\ Canonical(post[j + k], Max2(1, getIndentDepth(SrcBlock[k]) + delta))

\* the last operation is a move that ended by the rejection of a read or write,
\* with no write of another program since it began
MoveFailed == op.kind = "failed" /\ op.by \in {"drop", "end"} /\ budget.edits = 0

\* C20: at the end of a move that failed because a read or write rejected, the
\* failure has been reported to the caller, at most one document differs from
\* its content before the move, and every line of the block is still present
\* in one of the two documents.
C20_FailedMoveLosesNothing ==
    MoveFailed =>
        /\ op.notice
        /\ Cardinality({p \in Paths : fs[p].content # op.before[p].content}) <= 1
        /\ \A k \in 1..BlockLen :
              \E p \in Paths : \E i \in 1..Len(PostLines(p)) :
                  Body(PostLines(p)[i]) = Body(SrcBlock[k])

-----------------------------------------------------------------------------
\* the last operation is a mountTable that a rejected read ended
ScanFailed == op.kind = "scanFailed"

\* the store's scan maps are those of the last successful scan
StoreKept ==
    /\ store.tasksByFile = op.storeBefore.tasksByFile
    /\ store.childrenById = op.storeBefore.childrenById
    /\ store.rowRefs = op.storeBefore.rowRefs

\* C21 (as stated): if a document read rejects during a scan, the mount fails
\* and publishes nothing: store.tasksByFile and store.childrenById keep the
\* values of the last successful scan, and the parse cache holds no entry for
\* the document whose read failed.
C21_FailedScanLeavesNoEntry ==
    ScanFailed => (StoreKept /\ op.path \notin DOMAIN op.cacheAfter)

\* C21 (amended): if a document read rejects during a scan, the mount fails and
\* publishes nothing: store.tasksByFile and store.childrenById keep the values
\* of the last successful scan, and the failed read stores no cache entry: the
\* cache has for that document what it had before the scan, nothing or an entry
\* of another modification timestamp than the document's.
C21_FailedScanStoresNoEntry ==
    ScanFailed =>
        /\ StoreKept
        /\ op.path \in DOMAIN op.cacheAfter <=> op.path \in DOMAIN op.cacheBefore
        /\ op.path \in DOMAIN op.cacheAfter =>
              /\ op.cacheAfter[op.path] = op.cacheBefore[op.path]
              /\ op.cacheAfter[op.path].mtime # op.before[op.path].mtime

\* witness of C21: the read of a document another program has written rejects
\* in a refresh, while the cache still holds the document's parse of before
C21_Witness ==
    /\ ScanFailed /\ op.by = "view"
    /\ op.path \in DOMAIN op.cacheAfter
    /\ DOMAIN store.tasksByFile # {}

-----------------------------------------------------------------------------
\* the last operation extracted a block: a move, an append or a delete
Extracted == op.kind \in {"child", "between", "end", "delete"}

\* C22: block extraction from a node at line index start with depth d returns
\* the inclusive range [start, end], end the largest index such that every line
\* in (start, end] is a task line deeper than d (the loop stops at the first line
\* that is no task and at the first task line of depth <= d); move, append and
\* delete compute this same range, and it is the range of lines that leaves the
\* source document.
C22_BlockIsDeeperRun ==
    (Extracted /\ SourceFresh) =>
        /\ op.end = SrcEnd
        /\ \A i \in (Start + 1)..op.end : Deeper(PreLines(SrcPath), i, op.source.depth)
        /\ op.end + 1 < Len(PreLines(SrcPath)) =>
              ~Deeper(PreLines(SrcPath), op.end + 1, op.source.depth)
        /\ (op.kind = "delete" \/ op.dest # SrcPath) =>
              fs[SrcPath].content = join(Without(PreLines(SrcPath), Start, op.end))

\* witness of C22: an append whose block of two lines a line that is no task ends
C22_Witness ==
    /\ Extracted /\ SourceFresh /\ op.kind = "end"
    /\ Start = 0 /\ op.end = 1
    /\ Len(PreLines(SrcPath)) = 3
    /\ ~TASK_RX(PreLines(SrcPath)[3])

-----------------------------------------------------------------------------
\* the depth a line of the adjusted block is to have
AdjustedDepth(ln) == Max2(1, getIndentDepth(ln) + (op.newDepth - op.srcDepth))

\* no line of the block is clamped at depth 1
Unclamped == \A k \in 1..Len(op.block) : getIndentDepth(op.block[k]) + (op.newDepth - op.srcDepth) >= 1

\* C23: depth-adjusting a block by depthDelta = newDepth - originalNodeDepth
\* rewrites every task line so that its depth, as getIndentDepth measures it,
\* is max(1, originalLineDepth + depthDelta), and keeps the line's bullet,
\* checkbox state and payload byte-identical; the depths of the lines relative
\* to one another are kept when no line is clamped at depth 1.
C23_AdjustKeepsBodySetsDepth ==
    op.kind = "adjust" =>
        /\ Len(op.out) = Len(op.block)
        /\ \A k \in 1..Len(op.block) :
              TASK_RX(op.block[k]) =>
                  /\ getIndentDepth(op.out[k]) = AdjustedDepth(op.block[k])
                  /\ Body(op.out[k]) = Body(op.block[k])
        /\ Unclamped =>
              \A j, k \in 1..Len(op.block) :
                  getIndentDepth(op.out[j]) - getIndentDepth(op.out[k])
                      = getIndentDepth(op.block[j]) - getIndentDepth(op.block[k])

\* C23 on the blocks whose lines hold no carriage return
C23_AdjustOfLfLines ==
    (op.kind = "adjust" /\ \A k \in 1..Len(op.block) : matchesToEnd(op.block[k])) =>
        C23_AdjustKeepsBodySetsDepth

\* a block of two lines adjusted to another depth without a carriage return in it
C23_ReachedLf ==
    /\ op.kind = "adjust" /\ Len(op.block) = 2 /\ matchesToEnd(op.block[2])
    /\ op.newDepth # op.srcDepth

-----------------------------------------------------------------------------
\* the last operation is a move of relocateSubtree within one document
MovedWithin == op.kind \in {"child", "between"} /\ op.dest = SrcPath

\* the lines of the document once the block is spliced out
Spliced == Without(PreLines(SrcPath), Start, op.end)

\* i clamped into [0, n]
Clamped(i, n) == Max2(0, Min2(n, i))

\* the document after the move is the spliced line array with the block put in
\* at 0-based index at
BlockPutAt(at) ==
    LET post == PostLines(op.dest)
    IN /\ Len(post) = Len(Spliced) + BlockLen
       /\ SubSeq(post, 1, at) = SubSeq(Spliced, 1, at)
       /\ \A k \in 1..BlockLen : Body(post[at + k]) = Body(SrcBlock[k])
       /\ SubSeq(post, at + BlockLen + 1, Len(post)) = SubSeq(Spliced, at + 1, Len(Spliced))

\* C24: in a move within one document the insertion index used on the spliced
\* line array is the computed index less the length of the removed block exactly
\* when the computed index is after the removed range [start, end], and the
\* computed index otherwise; the result is clamped into [0, length].
C24_ShiftedWhenAfterRange ==
    (MovedWithin /\ SourceFresh) =>
        BlockPutAt(Clamped(IF op.insertAt > op.end THEN op.insertAt - BlockLen ELSE op.insertAt,
                           Len(Spliced)))

\* C24 where the computed index is not inside the removed range
C24_ShiftedOutsideRange ==
    (MovedWithin /\ SourceFresh /\ ~(Start < op.insertAt /\ op.insertAt <= op.end)) =>
        BlockPutAt(Clamped(IF op.insertAt > op.end THEN op.insertAt - BlockLen ELSE op.insertAt,
                           Len(Spliced)))

\* the index relocateSubtree uses: shifted whenever the computed index is after
\* the first line of the removed range
C24_ShiftedWhenAfterStart ==
    (MovedWithin /\ SourceFresh) =>
        BlockPutAt(Clamped(IF Start < op.insertAt THEN op.insertAt - BlockLen ELSE op.insertAt,
                           Len(Spliced)))

\* a move down the document past the removed range, and one to an index inside it
C24_ReachedShift ==
    MovedWithin /\ SourceFresh /\ op.insertAt > op.end + 1 /\ BlockLen = 2
C24_ReachedInside ==
    MovedWithin /\ SourceFresh /\ Start > 0 /\ Start < op.insertAt /\ op.insertAt <= op.end

-----------------------------------------------------------------------------
\* the documents the last mount scanned, each as it was then
Scanned == op.reads \cup op.hits
ScannedLines(p) == split(op.before[p].content)

\* C25: for every scanned document the node list holds exactly the lines that
\* match the task grammar, one node per such line in increasing line order (a
\* line that does not match is skipped and the scan goes on behind it), and the
\* id of a node is made of the document path and the line index, so that no two
\* nodes of a scan share an id, within a document or across documents.
C25_NodesAreTheTaskLines ==
    op.kind = "mount" =>
        /\ \A p \in Scanned :
              /\ {Entries(p)[k].lineIndex : k \in 1..Len(Entries(p))}
                    = {i \in 0..(Len(ScannedLines(p)) - 1) : TASK_RX(ScannedLines(p)[i + 1])}
              /\ \A k \in 1..Len(Entries(p)) :
                    /\ Entries(p)[k].id = <<p, Entries(p)[k].lineIndex>>
                    /\ Entries(p)[k].originalLine = ScannedLines(p)[Entries(p)[k].lineIndex + 1]
                    /\ k > 1 => Entries(p)[k - 1].lineIndex < Entries(p)[k].lineIndex
        /\ \A p, q \in Scanned : \A j \in 1..Len(Entries(p)), k \in 1..Len(Entries(q)) :
              Entries(p)[j].id = Entries(q)[k].id => (p = q /\ j = k)

\* witness of C25: a scan of a document with a line that is no task between task
\* lines, and of a second document whose task stands at the same line index as
\* one of the first
C25_Witness ==
    /\ op.kind = "mount" /\ Scanned = Paths
    /\ \E i \in 2..(Len(ScannedLines("A.md")) - 1) :
          /\ ~TASK_RX(ScannedLines("A.md")[i])
          /\ TASK_RX(ScannedLines("A.md")[i - 1]) /\ TASK_RX(ScannedLines("A.md")[i + 1])
    /\ Len(Entries("A.md")) >= 2
    /\ Len(Entries("B.md")) = 1
    /\ Entries("A.md")[1].lineIndex = Entries("B.md")[1].lineIndex

-----------------------------------------------------------------------------
\* the line at the row's index in the source document as the operation read it
\* is a task line
SourceIsTask ==
    /\ Start < Len(PreLines(SrcPath))
    /\ TASK_RX(PreLines(SrcPath)[Start + 1])

\* no document's content has changed in the last operation
NothingModified == \A p \in Paths : fs[p].content = op.before[p].content

-----------------------------------------------------------------------------
\* checkbox state and payload of a task line
BoxAndPayload(ln) == <<ln[leadLen(ln) + 4], SubSeq(ln, leadLen(ln) + 7, Len(ln))>>

\* the multiset of (checkbox state, payload) of the task lines of a document
TaskBag(lines) ==
    LET tasks == {i \in 1..Len(lines) : TASK_RX(lines[i])}
    IN [b \in {BoxAndPayload(lines[i]) : i \in tasks} |->
            Cardinality({i \in tasks : BoxAndPayload(lines[i]) = b})]

\* a move in which the parent or anchor row is a descendant of the moved row
MovedIntoOwnBlock ==
    /\ op.kind \in {"child", "between"}
    /\ SourceFresh /\ TargetInBlock
    /\ op.target.lineIndex # Start

\* the moved block stands in post as one run of lines, and the other lines of
\* pre are around it in their order
BlockContiguous(pre, post) ==
    \E j \in 0..(Len(post) - BlockLen) :
        /\ \A k \in 1..BlockLen :
              /\ TASK_RX(post[j + k])
              /\ BoxAndPayload(post[j + k]) = BoxAndPayload(SrcBlock[k])
        /\ Without(post, j, j + BlockLen - 1) = Without(pre, Start, SrcEnd)

NoLossNoDuplicate ==
    /\ Len(PostLines(SrcPath)) = Len(PreLines(SrcPath))
    /\ TaskBag(PostLines(SrcPath)) = TaskBag(PreLines(SrcPath))
    /\ BlockContiguous(PreLines(SrcPath), PostLines(SrcPath))
    /\ fs[OtherPath(SrcPath)].content = op.before[OtherPath(SrcPath)].content

\* C27 (as stated): moving a node as first child of, or as sibling before or
\* after, one of its own descendants loses and duplicates no line: the document
\* has the same number of lines and the same multiset of (checkbox state,
\* payload) task lines as before, and the moved block stays contiguous.
C27_MoveIntoOwnBlockKeepsLines ==
    MovedIntoOwnBlock => NoLossNoDuplicate

\* no line of the moved block holds a carriage return
BlockIsLf == \A k \in 1..BlockLen : \A i \in 1..Len(SrcBlock[k]) : SrcBlock[k][i] # "\r"

\* C27 restricted to blocks whose lines hold no carriage return
C27_LfMoveIntoOwnBlockKeepsLines ==
    (MovedIntoOwnBlock /\ BlockIsLf) => NoLossNoDuplicate

\* a block of three lines dropped on its last line
C27_ReachedLf ==
    MovedIntoOwnBlock /\ BlockIsLf /\ BlockLen = 3 /\ op.target.lineIndex = Start + 2

-----------------------------------------------------------------------------
\* the last call of getCachedFileParse was answered from the cache
CacheHit == op.kind = "hit"

\* the entry of p would be served now, and is what a parse of p's content gives
ServedIsFresh(p) ==
    cacheHit(cache, p, fs[p].mtime) =>
        /\ cache[p].entries = parseFile(p, fs[p].content).entries
        /\ cache[p].childrenById = parseFile(p, fs[p].content).childrenById

\* C28: under any interleaving of concurrent scans, writes of the plugin and
\* writes of other programs, each of which advances the document's timestamp,
\* a cache hit of getCachedFileParse returns the entries a fresh parse of the
\* document's current content gives; an entry stored under a timestamp taken
\* before a write, with the content read after it, is never served for the
\* newer timestamp.
C28_HitIsFreshParse ==
    /\ \A p \in Paths : ServedIsFresh(p)
    /\ CacheHit =>
          /\ op.mtime = op.before[op.path].mtime
          /\ op.entries = parseFile(op.path, op.before[op.path].content).entries
          /\ op.childrenById = parseFile(op.path, op.before[op.path].content).childrenById

\* witness of C28: a scan took the timestamp, the document was written, the scan
\* read the new content and stored it under the old timestamp; the entry is in
\* the cache and is not one that is served
C28_Witness ==
    /\ op.kind = "miss"
    /\ op.mtime < op.before[op.path].mtime
    /\ op.content = op.before[op.path].content
    /\ op.path \in DOMAIN cache /\ cache[op.path].mtime = op.mtime
    /\ fs = op.before

\* a hit on a document written since the mount
C28_ReachedHitAfterWrite ==
    CacheHit /\ op.mtime > 1 /\ op.entries # <<>>

-----------------------------------------------------------------------------
\* the paths of the file buckets of the groups the last mount's scan returned
BucketPaths ==
    {p \in Paths : \E k \in 1..Len(op.groups) : Occurrences(op.groups[k], p) > 0}

\* the paths of the entries the last mount's scan returned
TaskPaths == DOMAIN store.tasksByFile

\* C29 (as stated): in every result of scanTasks the paths in tasksByFile are the
\* paths that appear in some file bucket of the returned groups, in flat mode and
\* in grouped mode, also for documents matched only by rules with an empty group
\* name while another rule has a name.
C29_TasksByFileAreTheBuckets ==
    op.kind = "mount" => TaskPaths = BucketPaths

\* C29 (amended): tasksByFile holds every document with a task line that some
\* compiled rule matches. The file buckets hold the same documents in flat mode;
\* in grouped mode they hold those of them that a rule with a non-empty name
\* matches, so a document matched only by rules with an empty name is in
\* tasksByFile and in no file bucket.
C29_BucketsAreTheNamedOfTasksByFile ==
    op.kind = "mount" =>
        /\ TaskPaths = {p \in Paths : Matched(p) /\ HeldTasks(p)}
        /\ BucketPaths =
              IF MountGroupNames = {} THEN TaskPaths
              ELSE {p \in TaskPaths : \E g \in MountGroupNames : MatchedUnder(g, p)}

\* witness of C29: A.md is in a named group, B.md, matched only by a rule
\* without a name, is in tasksByFile and in no file bucket
C29_Witness ==
    /\ op.kind = "mount"
    /\ "A.md" \in BucketPaths
    /\ "B.md" \in TaskPaths \ BucketPaths

-----------------------------------------------------------------------------
\* the last operation was a save: cb.onchange or the autosave
Saved == op.kind \in {"toggle", "save"}

\* line i (0-based) of p, as the save read it, is the task line a row of the
\* table was scanned from
IsRowLine(p, i) ==
    \E k \in 1..Len(op.rows) :
        /\ op.rows[k].filePath = p /\ op.rows[k].lineIndex = i
        /\ PreLines(p)[i + 1] = op.rows[k].originalLine

\* every line of p the save changed is the line of a row
OnlyRowLinesChanged(p) ==
    /\ Len(PostLines(p)) = Len(PreLines(p))
    /\ \A i \in 0..(Len(PreLines(p)) - 1) :
          PostLines(p)[i + 1] # PreLines(p)[i + 1] => IsRowLine(p, i)

\* C30 (as stated): saveEdits and saveRowImmediate replace line i of a document
\* only when line i of the content read is the task line the row was scanned
\* from; when the document has changed since the last scan, a save modifies no
\* line that is another task or no task line.
C30_SaveReplacesOnlyRowLines ==
    Saved => \A p \in Paths : OnlyRowLinesChanged(p)

\* the rows of the save denote the lines they were scanned from
RowsFresh ==
    \A k \in 1..Len(op.rows) :
        /\ op.rows[k].lineIndex < Len(PreLines(op.rows[k].filePath))
        /\ PreLines(op.rows[k].filePath)[op.rows[k].lineIndex + 1] = op.rows[k].originalLine

\* C30 for saves over documents unchanged since the scan
C30_FreshSaveReplacesOnlyRowLines ==
    (Saved /\ RowsFresh) => \A p \in Paths : OnlyRowLinesChanged(p)

\* a save over fresh rows that changed a line
C30_ReachedFresh ==
    Saved /\ RowsFresh /\ fs["A.md"].content # op.before["A.md"].content

=============================================================================
